---------------------------- MODULE Spec2Model ----------------------------
(***************************************************************************)
(* Model of the BRIR pipeline-enforcer plugin (src/unnamed/part_001,       *)
(* lines 1-746): the per-session phase state machine, the tool gate, the   *)
(* completion tracking and the lazy repository probe (Spec), and the patch *)
(* engine: applyHunks on its own (HunkSpec) and the apply_patch tool on a  *)
(* file system (PatchSpec).                                                *)
(*                                                                         *)
(* Strings whose characters the code inspects (tool names, shell commands, *)
(* task output) are sequences of one-character strings, so toLowerCase,    *)
(* trimStart, startsWith and includes are computed, not assumed.           *)
(***************************************************************************)
EXTENDS Integers, Sequences, FiniteSets, TLC

VARIABLES
    sessions,              \* Map<sessionID, PipelineState>: a function on the ids that have state
    knownPrimarySessions,  \* Set<sessionID> seen in chat.message with an agent
    diffSeen,              \* history, per session with state: "current" when a qualifying
                           \* git diff completed during the present stay in reviewing,
                           \* "earlier" when one did only before the phase last changed,
                           \* "never" when none did since the state was created
    last,                  \* history: the last hook or tool call, its result, and the
                           \* caller's entries of `sessions` and `diffSeen` before the call
    probed,                \* history: the sessions for which checkGitRepo has run execSync
    exec,                  \* history: how the execSync run by the last call ended ("none"
                           \* when it ran none) and whether the session's had run before
    hunkRun,               \* one run of applyHunks: its arguments, the text the diff was
                           \* made for, and its result once it has returned
    disk,                  \* the file system apply_patch works on
    patchCall,             \* history: the last call of apply_patch, what parsePatch made
                           \* of its text, its result and the file system before it
    parseRun,              \* one run of parsePatch: its argument and, once it has
                           \* returned, its result
    pipelineState,         \* WorkflowLogger: Record<parentID, {dispatches, startTime}>
    emitted,               \* history: the last event the logger handled, the entry of
                           \* its session before it, the toasts it showed, and per
                           \* entry the child session.created events seen since the
                           \* entry was made
    handlers,              \* the handler calls that are suspended at an await, each
                           \* with its position and what it holds
    inFlight               \* the Task calls the tool gate admitted and whose completion
                           \* hook has not run, each with the stay in dispatching it
                           \* was admitted in

pipelineVars == <<sessions, knownPrimarySessions, diffSeen, last, probed, exec>>

engineVars == <<hunkRun, disk, patchCall, parseRun>>

loggerVars == <<pipelineState, emitted>>

hostVars == <<handlers, inFlight>>

otherVars == <<engineVars, loggerVars, hostVars>>

vars == <<pipelineVars, otherVars>>

---------------------------------------------------------------------------
(* Bounds of the model                                                     *)

\* Date.now() returns a value of 0..MaxTime
MaxTime == 1

\* pipeline_advance is not called once it would make dispatches exceed this
MaxDispatches == 5

\* a diff given to applyHunks is made from an edit script of at most this many lines
MaxEdit == 3

\* a file given to applyHunks with hunks of any kind has at most this many lines
MaxLines == 2

---------------------------------------------------------------------------
(* Constants of the program                                                *)

ORCHESTRATOR_AGENT == "orchestrator"

MAX_ITERATIONS == 3

Phases == {"brainstorming", "refining", "dispatching", "reviewing", "reporting", "complete"}

\* slip: the rows of dispatching and reviewing are shifted by one
TRANSITIONS_shiftedRow ==
    [p \in Phases |->
        CASE p = "brainstorming" -> <<"refining">>
          [] p = "refining"      -> <<"dispatching">>
          [] p = "dispatching"   -> <<"dispatching", "reporting">>
          [] p = "reviewing"     -> <<"dispatching", "reporting">>
          [] p = "reporting"     -> <<"complete">>
          [] p = "complete"      -> <<>>]

\* current phase -> array of allowed target phases
TRANSITIONS ==
    [p \in Phases |->
        CASE p = "brainstorming" -> <<"refining">>
          [] p = "refining"      -> <<"dispatching">>
          [] p = "dispatching"   -> <<>>
          [] p = "reviewing"     -> <<"dispatching", "reporting">>
          [] p = "reporting"     -> <<"complete">>
          [] p = "complete"      -> <<>>]

\* the keys of TARGET_ALIASES, in insertion order
AliasKeys == <<"refine", "dispatch", "iterate", "report", "complete">>

\* alias -> phase
TARGET_ALIASES ==
    [a \in {AliasKeys[i] : i \in 1..Len(AliasKeys)} |->
        CASE a = "refine"   -> "refining"
          [] a = "dispatch" -> "dispatching"
          [] a = "iterate"  -> "dispatching"
          [] a = "report"   -> "reporting"
          [] a = "complete" -> "complete"]

\* tool names a subagent session may call, lower case
SUBAGENT_ALLOWED_TOOLS ==
    { <<"r", "e", "a", "d">>,
      <<"w", "r", "i", "t", "e">>,
      <<"e", "d", "i", "t">>,
      <<"b", "a", "s", "h">>,
      <<"g", "l", "o", "b">>,
      <<"g", "r", "e", "p">>,
      <<"t", "o", "d", "o">>,
      <<"t", "o", "d", "o", "w", "r", "i", "t", "e">>,
      <<"q", "u", "e", "s", "t", "i", "o", "n">>,
      <<"i", "n", "v", "a", "l", "i", "d">>,
      <<"a", "p", "p", "l", "y", "_", "p", "a", "t", "c", "h">>,
      <<"p", "i", "p", "e", "l", "i", "n", "e", "_", "a", "d", "v", "a", "n", "c", "e">>,
      <<"p", "i", "p", "e", "l", "i", "n", "e", "_", "s", "t", "a", "t", "u", "s">> }

\* the markers tool.execute.after looks for in a Task's output
failureMarkers ==
    << <<"T", "a", "s", "k", " ", "f", "a", "i", "l", "e", "d">>,
       <<"T", "A", "S", "K", "_", "F", "A", "I", "L", "E", "D">>,
       <<"t", "a", "s", "k", " ", "w", "a", "s", " ", "a", "b", "o", "r", "t", "e", "d">>,
       <<"a", "g", "e", "n", "t", " ", "c", "r", "a", "s", "h", "e", "d">> >>

\* isGitRepo: boolean | null
GitNull == "null"
GitTrue == "true"
GitFalse == "false"

---------------------------------------------------------------------------
(* String primitives                                                       *)

UpperLetters == <<"A","B","C","D","E","F","G","H","I","J","K","L","M",
                  "N","O","P","Q","R","S","T","U","V","W","X","Y","Z">>
LowerLetters == <<"a","b","c","d","e","f","g","h","i","j","k","l","m",
                  "n","o","p","q","r","s","t","u","v","w","x","y","z">>

\* String.prototype.toLowerCase, one character
toLowerChar(c) ==
    IF \E i \in 1..Len(UpperLetters) : UpperLetters[i] = c
    THEN LowerLetters[CHOOSE i \in 1..Len(UpperLetters) : UpperLetters[i] = c]
    ELSE c

\* String.prototype.toLowerCase
toLowerCase(s) == [i \in 1..Len(s) |-> toLowerChar(s[i])]

WhiteSpace == {" ", "\t", "\n", "\r"}

\* String.prototype.trimStart
RECURSIVE trimStart(_)
trimStart(s) ==
    IF Len(s) > 0 /\ Head(s) \in WhiteSpace THEN trimStart(Tail(s)) ELSE s

\* String.prototype.startsWith
startsWith(s, prefix) ==
    Len(s) >= Len(prefix) /\ SubSeq(s, 1, Len(prefix)) = prefix

\* String.prototype.includes
includes(s, part) ==
    \E i \in 1..(Len(s) - Len(part) + 1) : SubSeq(s, i, i + Len(part) - 1) = part

\* Array.prototype.includes
arrayIncludes(arr, x) == \E i \in 1..Len(arr) : arr[i] = x

\* slip: the phase name is printed as it is
toUpperCase_asIs(p) == p

\* Phase.toUpperCase()
toUpperCase(p) ==
    CASE p = "brainstorming" -> "BRAINSTORMING"
      [] p = "refining"      -> "REFINING"
      [] p = "dispatching"   -> "DISPATCHING"
      [] p = "reviewing"     -> "REVIEWING"
      [] p = "reporting"     -> "REPORTING"
      [] p = "complete"      -> "COMPLETE"

---------------------------------------------------------------------------
(* Map<string, PipelineState>                                              *)

\* Map.prototype.has
has(map, key) == key \in DOMAIN map

\* slip: the sessions share one state object, so a write for one key shows
\* under every key
set_shared(map, key, value) == [k \in (DOMAIN map) \cup {key} |-> value]

\* Map.prototype.set
set(map, key, value) ==
    [k \in (DOMAIN map) \cup {key} |-> IF k = key THEN value ELSE map[k]]

\* the entry of one key, as a map with at most that key
entry(map, key) == [k \in (DOMAIN map) \cap {key} |-> map[k]]

---------------------------------------------------------------------------
(* Helpers of the plugin                                                   *)

\* the values Date.now() can return
DateNow == 0..MaxTime

\* freshState, with `t` the value Date.now() returns
freshState(t) ==
    [ phase         |-> "brainstorming",
      iterations    |-> 0,
      gitDiffCalled |-> FALSE,
      isGitRepo     |-> GitNull,
      startTime     |-> t,
      dispatches    |-> 0 ]

\* how execSync("git rev-parse --is-inside-work-tree", {timeout: 3000}) can end:
\* it returns when git exits 0 in time and throws in every other case
ExecOutcomes == {"exit 0", "non-zero exit", "timeout", "cannot run"}

\* slip: only a non-zero exit is taken for No, a timeout leaves the answer open
checkGitRepo_timeoutUnknown(outcome) ==
    CASE outcome = "exit 0"        -> GitTrue
      [] outcome = "non-zero exit" -> GitFalse
      [] OTHER                     -> GitNull

\* checkGitRepo, with `outcome` the way its execSync ends: true when it
\* returns, false from the catch block
checkGitRepo(outcome) == IF outcome = "exit 0" THEN GitTrue ELSE GitFalse

\* slip: the answer is not memoized, every call probes again
ensureGitRepoDetected_noMemo(state, probe) == [state EXCEPT !.isGitRepo = probe]

\* ensureGitRepoDetected, with `probe` the value checkGitRepo would return
ensureGitRepoDetected(state, probe) ==
    IF state.isGitRepo = GitNull THEN [state EXCEPT !.isGitRepo = probe] ELSE state

getPhaseGuidance(phase, state) ==
    IF phase = "reviewing" /\ state.isGitRepo = GitFalse
    THEN "REVIEWING_NO_GIT"
    ELSE "PHASE_GUIDANCE." \o phase

---------------------------------------------------------------------------
(* pipeline_advance                                                        *)

\* TARGET_ALIASES[args.target] is defined
aliasKnown(target) == target \in DOMAIN TARGET_ALIASES

\* allowed.includes(targetPhase)
transitionAllowed(state, targetPhase) ==
    arrayIncludes(TRANSITIONS[state.phase], targetPhase)

\* the alias the error message prints for an allowed phase
aliasNameOf(state, p) ==
    IF state.phase = "reviewing" /\ p = "dispatching" THEN "iterate"
    ELSE LET hits == {i \in 1..Len(AliasKeys) :
                        TARGET_ALIASES[AliasKeys[i]] = p /\ AliasKeys[i] # "iterate"}
         IN  IF hits = {} THEN p
             ELSE AliasKeys[CHOOSE i \in hits : \A j \in hits : i <= j]

aliasNames(state) ==
    [i \in 1..Len(TRANSITIONS[state.phase]) |-> aliasNameOf(state, TRANSITIONS[state.phase][i])]

\* the iterate branch is taken
isIterate(target) == target = "iterate"

\* slip: the cap compared with > instead of >=
iterationCapReached_offByOne(state) == state.iterations > MAX_ITERATIONS

\* state.iterations >= MAX_ITERATIONS
iterationCapReached(state) == state.iterations >= MAX_ITERATIONS

\* slip: the cycle flag is not reset
iterateTransition_keepsFlag(state) ==
    [state EXCEPT !.iterations = @ + 1,
                  !.dispatches = @ + 1,
                  !.phase = "dispatching"]

\* the state after the iterate branch
iterateTransition(state) ==
    [state EXCEPT !.gitDiffCalled = FALSE,
                  !.iterations = @ + 1,
                  !.dispatches = @ + 1,
                  !.phase = "dispatching"]

\* slip: the counters are bumped before the cap is checked
iterateBranch_bumpsFirst(state) ==
    LET s2 == iterateTransition(state) IN
    IF iterationCapReached(state)
    THEN [state |-> s2, result |-> <<"ERROR:", "Maximum iterations reached">>]
    ELSE [state |-> s2,
          result |-> <<"Advanced to ", "DISPATCHING", " (iteration ",
                       ToString(s2.iterations), "/", ToString(MAX_ITERATIONS), "). ",
                       "PHASE_GUIDANCE.dispatching">>]

\* the body of `if (args.target === "iterate")`
iterateBranch(state) ==
    IF iterationCapReached(state)
    THEN [state |-> state, result |-> <<"ERROR:", "Maximum iterations reached">>]
    ELSE LET s2 == iterateTransition(state) IN
         [state |-> s2,
          result |-> <<"Advanced to ", "DISPATCHING", " (iteration ",
                       ToString(s2.iterations), "/", ToString(MAX_ITERATIONS), "). ",
                       "PHASE_GUIDANCE.dispatching">>]

\* the report branch is taken
isReport(target) == target = "report"

\* slip: the prerequisite is never enforced
gitDiffMissing_neverEnforced(state) == FALSE

\* slip: the prerequisite is enforced outside git repositories too
gitDiffMissing_noWaiver(state) == ~state.gitDiffCalled

\* !state.gitDiffCalled && state.isGitRepo !== false
gitDiffMissing(state) == ~state.gitDiffCalled /\ state.isGitRepo # GitFalse

\* slip: a transition to reporting falls through to complete
executeTransition_fallsThrough(state, targetPhase) ==
    [state EXCEPT !.phase = IF targetPhase = "reporting" THEN "complete" ELSE targetPhase,
                  !.dispatches = IF targetPhase = "dispatching" THEN @ + 1 ELSE @]

\* the state after "Execute transition"
executeTransition(state, targetPhase) ==
    [state EXCEPT !.phase = targetPhase,
                  !.dispatches = IF targetPhase = "dispatching" THEN @ + 1 ELSE @]

\* pipelineAdvance.execute from the lazy detection on: `state` is the
\* session's state after ensureGitRepoDetected. Yields the state it leaves and
\* the string it returns, as a sequence of pieces.
advanceExecute(state, target) ==
    IF ~aliasKnown(target)
    THEN [state |-> state, result |-> <<"ERROR:", "Unknown target", target>>]
    ELSE LET targetPhase == TARGET_ALIASES[target] IN
    IF ~transitionAllowed(state, targetPhase)
    THEN [state |-> state,
          result |-> <<"ERROR:", "Cannot transition", state.phase, target>> \o aliasNames(state)]
    ELSE IF isIterate(target) THEN iterateBranch(state)
    ELSE IF isReport(target) /\ gitDiffMissing(state)
    THEN [state |-> state, result |-> <<"ERROR:", "You must run git diff">>]
    ELSE LET s2 == executeTransition(state, targetPhase) IN
         [state |-> s2,
          result |-> <<"Advanced to ", toUpperCase(targetPhase), ". ",
                       getPhaseGuidance(targetPhase, s2)>>]

---------------------------------------------------------------------------
(* pipeline_status                                                         *)

\* slip: the retry edge is printed under its first alias
statusAliasOf_firstAlias(state, p) ==
    LET hits == {i \in 1..Len(AliasKeys) : TARGET_ALIASES[AliasKeys[i]] = p} IN
    IF hits = {} THEN p
    ELSE AliasKeys[CHOOSE i \in hits : \A j \in hits : i <= j]

\* the alias formatStatus prints for an allowed phase
statusAliasOf(state, p) ==
    LET hits == {i \in 1..Len(AliasKeys) : TARGET_ALIASES[AliasKeys[i]] = p} IN
    IF hits = {} THEN p
    ELSE IF state.phase = "reviewing" /\ p = "dispatching" THEN "iterate"
    ELSE AliasKeys[CHOOSE i \in hits : \A j \in hits : i <= j]

\* `valid` of formatStatus
validAliases(state) ==
    [i \in 1..Len(TRANSITIONS[state.phase]) |-> statusAliasOf(state, TRANSITIONS[state.phase][i])]

gitLabel(state) ==
    IF state.isGitRepo = GitFalse THEN "n/a (not a git repo)"
    ELSE IF state.gitDiffCalled THEN "done" ELSE "needed"

formatStatus(state) ==
    << "Phase: ", state.phase,
       "Iteration: ", ToString(state.iterations), "/", ToString(MAX_ITERATIONS),
       "git diff: ", gitLabel(state),
       "Dispatches: ", ToString(state.dispatches),
       "Valid transitions: " >>
    \o (IF Len(validAliases(state)) > 0 THEN validAliases(state) ELSE <<"(none -- automatic)">>)

\* pipelineStatus.execute from the lazy detection on
statusExecute(state) ==
    formatStatus(state) \o <<"Current phase guidance: ", getPhaseGuidance(state.phase, state)>>

---------------------------------------------------------------------------
(* Values a hook receives                                                  *)

Undefined == [type |-> "undefined"]
Str(text) == [type |-> "string", text |-> text]
NotAString == [type |-> "number"]

\* a ?? b
orElse(a, b) == IF a = Undefined THEN b ELSE a

---------------------------------------------------------------------------
(* tool.execute.before                                                     *)

isTaskTool(toolName) == toolName = <<"t", "a", "s", "k">> \/ toolName = <<"T", "a", "s", "k">>
isWriteTool(toolName) == toolName = <<"w", "r", "i", "t", "e">> \/ toolName = <<"W", "r", "i", "t", "e">>
\* slip: only the lower-case name of the edit tool is matched
isEditTool_lowerOnly(toolName) == toolName = <<"e", "d", "i", "t">>

isEditTool(toolName) == toolName = <<"e", "d", "i", "t">> \/ toolName = <<"E", "d", "i", "t">>
isBashTool(toolName) == toolName = <<"b", "a", "s", "h">> \/ toolName = <<"B", "a", "s", "h">>

\* slip: the name is looked up without lower-casing it
subagentBlocked_caseSensitive(toolName) == toolName \notin SUBAGENT_ALLOWED_TOOLS

\* the subagent branch rejects the tool
subagentBlocked(toolName) == toLowerCase(toolName) \notin SUBAGENT_ALLOWED_TOOLS

\* slip: the Task tool is let through while reviewing as well
taskBlocked_reviewingToo(state) == state.phase \notin {"dispatching", "reviewing"}

\* the Task guard rejects the call
taskBlocked(state) == state.phase # "dispatching"

\* what the hook does for session `sid`: returns, or throws an Error
toolExecuteBefore(map, known, sid, toolName) ==
    IF sid \notin known
    THEN IF subagentBlocked(toolName)
         THEN <<"throw", "not available in implementation sessions">>
         ELSE <<"return">>
    ELSE IF ~has(map, sid) THEN <<"return">>
    ELSE IF isTaskTool(toolName) /\ taskBlocked(map[sid])
    THEN <<"throw", "BLOCKED: Task">>
    ELSE IF isWriteTool(toolName) THEN <<"throw", "BLOCKED: write">>
    ELSE IF isEditTool(toolName) THEN <<"throw", "BLOCKED: edit">>
    ELSE <<"return">>

---------------------------------------------------------------------------
(* tool.execute.after                                                      *)

\* slip: "git diff" is looked for anywhere in the command
isGitDiffCommand_anywhere(command) ==
    /\ command.type = "string"
    /\ includes(command.text, <<"g", "i", "t", " ", "d", "i", "f", "f">>)

\* typeof command === "string" && command.trimStart().startsWith("git diff")
isGitDiffCommand(command) ==
    /\ command.type = "string"
    /\ startsWith(trimStart(command.text), <<"g", "i", "t", " ", "d", "i", "f", "f">>)

\* the bash branch sets gitDiffCalled
gitDiffObserved(state, toolName, command) ==
    /\ isBashTool(toolName)
    /\ state.phase = "reviewing"
    /\ isGitDiffCommand(orElse(command, Str(<<>>)))

\* slip: only the first marker is looked for
isFailed_firstMarkerOnly(taskOutput) == includes(taskOutput.text, failureMarkers[1])

\* failureMarkers.some(marker => taskOutput.includes(marker))
isFailed(taskOutput) ==
    \E i \in 1..Len(failureMarkers) : includes(taskOutput.text, failureMarkers[i])

\* the Task branch advances the phase
taskCompleted(state, toolName, output) ==
    /\ isTaskTool(toolName)
    /\ state.phase = "dispatching"
    /\ ~isFailed(orElse(output, Str(<<>>)))

\* the state the hook leaves
toolExecuteAfter(state, toolName, command, output) ==
    LET s1 == IF gitDiffObserved(state, toolName, command)
              THEN [state EXCEPT !.gitDiffCalled = TRUE] ELSE state
    IN  IF taskCompleted(s1, toolName, output)
        THEN [s1 EXCEPT !.phase = "reviewing"] ELSE s1

---------------------------------------------------------------------------
(* chat.message                                                            *)

\* input.agent && input.sessionID
addsPrimary(agent) == agent # ""

\* slip: every orchestrator turn starts the pipeline over
initialises_anyPhase(map, sid, agent) == agent = ORCHESTRATOR_AGENT

\* the pipeline state is (re)initialised
initialises(map, sid, agent) ==
    /\ agent = ORCHESTRATOR_AGENT
    /\ (~has(map, sid) \/ map[sid].phase = "complete")

---------------------------------------------------------------------------
(* Inputs                                                                  *)

SessionIds == {"s1", "s2"}

\* chat.message inputs <<sessionID, agent>>: s1 is the session the user drives
\* as orchestrator (or as another primary agent), s2 a session of another
\* primary agent or, with no agent or no user turn at all, a subagent's
ChatInputs ==
    { <<"s1", "orchestrator">>, <<"s1", "build">>, <<"s2", "build">>, <<"s2", "">> }

\* args.target of pipeline_advance; "deploy" is no key of TARGET_ALIASES
AdvanceTargets == {"refine", "dispatch", "iterate", "report", "complete", "deploy"}

\* pipeline_advance calls <<sessionID, target>>
AdvanceInputs == ({"s1"} \X AdvanceTargets) \cup {<<"s2", "report">>}

\* input.tool of tool.execute.before
ToolNames ==
    { <<"t", "a", "s", "k">>, <<"T", "a", "s", "k">>, <<"T", "A", "S", "K">>,
      <<"w", "r", "i", "t", "e">>, <<"W", "r", "i", "t", "e">>,
      <<"e", "d", "i", "t">>, <<"E", "d", "i", "t">>,
      <<"b", "a", "s", "h">>, <<"r", "e", "a", "d">>,
      <<"w", "e", "b", "f", "e", "t", "c", "h">> }

Completion(toolName, command, output) ==
    [tool |-> toolName, command |-> command, output |-> output]

\* tool.execute.after inputs: input.tool, input.args.command ?? input.args.cmd,
\* output.output
ToolCompletions ==
    { Completion(<<"b", "a", "s", "h">>, Str(<<"g", "i", "t", " ", "d", "i", "f", "f">>), Undefined),
      Completion(<<"B", "a", "s", "h">>,
                 Str(<<" ", " ", "g", "i", "t", " ", "d", "i", "f", "f", " ", "-", "-", "s", "t", "a", "t">>),
                 Undefined),
      Completion(<<"b", "a", "s", "h">>, Str(<<"g", "i", "t", " ", "s", "t", "a", "t", "u", "s">>), Undefined),
      Completion(<<"b", "a", "s", "h">>,
                 Str(<<"e", "c", "h", "o", " ", "g", "i", "t", " ", "d", "i", "f", "f">>), Undefined),
      Completion(<<"b", "a", "s", "h">>, Undefined, Undefined),
      Completion(<<"b", "a", "s", "h">>, NotAString, Undefined),
      Completion(<<"r", "e", "a", "d">>, Str(<<"g", "i", "t", " ", "d", "i", "f", "f">>), Undefined),
      Completion(<<"t", "a", "s", "k">>, Undefined, Str(<<"d", "o", "n", "e">>)),
      Completion(<<"T", "a", "s", "k">>, Undefined, Str(<<"d", "o", "n", "e">>)),
      Completion(<<"T", "A", "S", "K">>, Undefined, Str(<<"d", "o", "n", "e">>)),
      Completion(<<"t", "a", "s", "k">>, Undefined, Undefined),
      Completion(<<"t", "a", "s", "k">>, Undefined,
                 Str(<<"T", "a", "s", "k", " ", "f", "a", "i", "l", "e", "d">>)),
      Completion(<<"t", "a", "s", "k">>, Undefined,
                 Str(<<"n", "o", " ", "T", "A", "S", "K", "_", "F", "A", "I", "L", "E", "D">>)),
      Completion(<<"T", "a", "s", "k">>, Undefined,
                 Str(<<"t", "a", "s", "k", " ", "w", "a", "s", " ", "a", "b", "o", "r", "t", "e", "d">>)),
      Completion(<<"t", "a", "s", "k">>, Undefined,
                 Str(<<"a", "g", "e", "n", "t", " ", "c", "r", "a", "s", "h", "e", "d">>)),
      Completion(<<"t", "a", "s", "k">>, Undefined,
                 Str(<<"t", "a", "s", "k", " ", "f", "a", "i", "l", "e", "d">>)) }

\* tool.execute.after calls <<sessionID, completion>>
CompletionInputs ==
    ({"s1"} \X ToolCompletions)
    \cup ({"s2"} \X { c \in ToolCompletions :
                        \/ c.output = Str(<<"d", "o", "n", "e">>) /\ c.tool = <<"t", "a", "s", "k">>
                        \/ c.command = Str(<<"g", "i", "t", " ", "d", "i", "f", "f">>) })

---------------------------------------------------------------------------
(* The state machine                                                       *)

Call(op, sid, arg, res) ==
    [ op |-> op, sid |-> sid, arg |-> arg, res |-> res,
      pre |-> entry(sessions, sid), preSeen |-> entry(diffSeen, sid) ]

\* diffSeen of a session whose phase goes from `old` to `new`
seenAfter(seen, old, new) ==
    IF old # new /\ seen = "current" THEN "earlier" ELSE seen

\* the call ran no execSync
NoExec == [outcome |-> "none", repeated |-> FALSE]

\* the call of session `sid` ran execSync, which ended with `outcome`
Exec(sid, outcome) == [outcome |-> outcome, repeated |-> sid \in probed]

\* the plugin after construction: no session has state, none is known
Constructed ==
    /\ sessions = <<>>
    /\ knownPrimarySessions = {}
    /\ diffSeen = <<>>
    /\ probed = {}
    /\ exec = NoExec
    /\ last = [ op |-> "init", sid |-> "", arg |-> <<>>, res |-> <<>>,
                pre |-> <<>>, preSeen |-> <<>> ]

\* applyHunks is not run
HunkIdle == hunkRun = [done |-> FALSE]

\* apply_patch is not called
PatchIdle == disk = [files |-> <<>>, dirs |-> {}] /\ patchCall = [patch |-> <<>>]

\* parsePatch is not run
ParseIdle == parseRun = [done |-> FALSE]

EngineIdle == HunkIdle /\ PatchIdle /\ ParseIdle

\* the workflow logger after construction, before any event
LoggerIdle ==
    /\ pipelineState = <<>>
    /\ emitted = [ type |-> "none", sid |-> "", pre |-> <<>>, toasts |-> <<>>, seen |-> <<>> ]

\* no handler is suspended, no Task call is in flight
HostIdle == handlers = {} /\ inFlight = {}

Init == Constructed /\ EngineIdle /\ LoggerIdle /\ HostIdle

\* the chat.message hook
ChatMessage(sid, agent) ==
    /\ knownPrimarySessions' =
          IF addsPrimary(agent) THEN knownPrimarySessions \cup {sid} ELSE knownPrimarySessions
    /\ IF initialises(sessions, sid, agent)
       THEN /\ \E t \in DateNow : sessions' = set(sessions, sid, freshState(t))
            /\ diffSeen' = set(diffSeen, sid, "never")
       ELSE UNCHANGED <<sessions, diffSeen>>
    /\ last' = Call("chat.message", sid, agent, <<"return">>)
    /\ exec' = NoExec
    /\ UNCHANGED <<probed, otherVars>>

\* slip: the tools do not test for a missing state and fail on its fields
withoutState_throws(prefix) == <<"throw", "TypeError">>

\* what pipeline_advance (with "ERROR:") and pipeline_status return to a
\* session that has no pipeline state
withoutState(prefix) == prefix \o <<"No pipeline state">>

\* the pipeline_advance tool
PipelineAdvance(sid, target) ==
    /\ IF ~has(sessions, sid)
       THEN /\ last' = Call("pipeline_advance", sid, target, withoutState(<<"ERROR:">>))
            /\ exec' = NoExec
            /\ UNCHANGED <<sessions, diffSeen, probed>>
       ELSE \E outcome \in ExecOutcomes :
              LET runs == sessions[sid].isGitRepo = GitNull
                  probe == checkGitRepo(outcome)
                  r == advanceExecute(ensureGitRepoDetected(sessions[sid], probe), target) IN
              /\ r.state.dispatches <= MaxDispatches
              /\ probed' = IF runs THEN probed \cup {sid} ELSE probed
              /\ exec' = IF runs THEN Exec(sid, outcome) ELSE NoExec
              /\ sessions' = set(sessions, sid, r.state)
              /\ diffSeen' = set(diffSeen, sid,
                                 seenAfter(diffSeen[sid], sessions[sid].phase, r.state.phase))
              /\ last' = Call("pipeline_advance", sid, target, r.result)
    /\ UNCHANGED <<knownPrimarySessions, otherVars>>

\* the pipeline_status tool
PipelineStatus(sid) ==
    /\ IF ~has(sessions, sid)
       THEN /\ last' = Call("pipeline_status", sid, <<>>, withoutState(<<>>))
            /\ exec' = NoExec
            /\ UNCHANGED <<sessions, probed>>
       ELSE \E outcome \in ExecOutcomes :
              LET runs == sessions[sid].isGitRepo = GitNull
                  probe == checkGitRepo(outcome)
                  st == ensureGitRepoDetected(sessions[sid], probe) IN
              /\ probed' = IF runs THEN probed \cup {sid} ELSE probed
              /\ exec' = IF runs THEN Exec(sid, outcome) ELSE NoExec
              /\ sessions' = set(sessions, sid, st)
              /\ last' = Call("pipeline_status", sid, <<>>, statusExecute(st))
    /\ UNCHANGED <<knownPrimarySessions, diffSeen, otherVars>>

\* the tool.execute.before hook
ToolExecuteBefore(sid, toolName) ==
    /\ last' = Call("tool.execute.before", sid, toolName,
                    toolExecuteBefore(sessions, knownPrimarySessions, sid, toolName))
    /\ exec' = NoExec
    /\ UNCHANGED <<sessions, knownPrimarySessions, diffSeen, probed, otherVars>>

\* the tool.execute.after hook
ToolExecuteAfter(sid, c) ==
    /\ IF ~has(sessions, sid)
       THEN UNCHANGED <<sessions, diffSeen>>
       ELSE LET st == toolExecuteAfter(sessions[sid], c.tool, c.command, c.output) IN
            /\ sessions' = set(sessions, sid, st)
            /\ diffSeen' = set(diffSeen, sid,
                  IF gitDiffObserved(sessions[sid], c.tool, c.command)
                  THEN "current"
                  ELSE seenAfter(diffSeen[sid], sessions[sid].phase, st.phase))
    /\ last' = Call("tool.execute.after", sid, c, <<"return">>)
    /\ exec' = NoExec
    /\ UNCHANGED <<knownPrimarySessions, probed, otherVars>>

Next ==
    \/ \E i \in ChatInputs : ChatMessage(i[1], i[2])
    \/ \E i \in AdvanceInputs : PipelineAdvance(i[1], i[2])
    \/ \E sid \in SessionIds : PipelineStatus(sid)
    \/ \E sid \in SessionIds, toolName \in ToolNames : ToolExecuteBefore(sid, toolName)
    \/ \E i \in CompletionInputs : ToolExecuteAfter(i[1], i[2])

Spec == Init /\ [][Next]_vars

---------------------------------------------------------------------------
(* Patch engine: applyHunks                                                *)

Min(a, b) == IF a < b THEN a ELSE b
Max(a, b) == IF a > b THEN a ELSE b

\* String.prototype.split, for a separator of one character
RECURSIVE split(_, _)
split(s, sep) ==
    IF \E i \in 1..Len(s) : s[i] = sep
    THEN LET i == CHOOSE k \in 1..Len(s) :
                      s[k] = sep /\ \A j \in 1..(k - 1) : s[j] # sep IN
         <<SubSeq(s, 1, i - 1)>> \o split(SubSeq(s, i + 1, Len(s)), sep)
    ELSE <<s>>

\* Array.prototype.join, of strings, with a separator of one character
RECURSIVE join(_, _)
join(arr, sep) ==
    IF Len(arr) = 0 THEN <<>>
    ELSE IF Len(arr) = 1 THEN arr[1]
    ELSE arr[1] \o <<sep>> \o join(Tail(arr), sep)

\* String.prototype.slice(start), for start >= 0
slice(s, start) == SubSeq(s, start + 1, Len(s))

\* Array.prototype.splice(start, deleteCount, ...items): the array it leaves.
\* A negative start counts from the end, a start past the end is the end, and
\* deleteCount is clamped to what is left.
splice(arr, start, deleteCount, items) ==
    LET from == IF start < 0 THEN Max(Len(arr) + start, 0) ELSE Min(start, Len(arr))
        del  == Min(Max(deleteCount, 0), Len(arr) - from) IN
    SubSeq(arr, 1, from) \o items \o SubSeq(arr, from + del + 1, Len(arr))

\* interface PatchHunk
PatchHunk(oldStart, oldCount, newStart, newCount, lines) ==
    [ oldStart |-> oldStart, oldCount |-> oldCount,
      newStart |-> newStart, newCount |-> newCount, lines |-> lines ]

\* line[0], undefined (here "") for the empty line
prefixOf(line) == IF Len(line) > 0 THEN line[1] ELSE ""

\* the lines applyHunks counts in contextAndRemoveCount: prefix "-" or " "
isContextOrRemove(line) == prefixOf(line) \in {"-", " "}

\* the lines applyHunks pushes to addLines: prefix "+" or " "
isContextOrAdd(line) == prefixOf(line) \in {"+", " "}

\* slip: only the removed lines are counted, the context lines are not
contextAndRemoveCount_removeOnly(hunk) ==
    Len(SelectSeq(hunk.lines, LAMBDA line : prefixOf(line) = "-"))

contextAndRemoveCount(hunk) == Len(SelectSeq(hunk.lines, isContextOrRemove))

addLines(hunk) ==
    LET kept == SelectSeq(hunk.lines, isContextOrAdd) IN
    [i \in 1..Len(kept) |-> slice(kept[i], 1)]

\* the comparator of the sort: (a, b) => b.oldStart - a.oldStart
compareHunks(a, b) == b.oldStart - a.oldStart

\* Array.prototype.sort with compareHunks; the sort is stable
RECURSIVE sort(_)
sort(arr) ==
    IF Len(arr) <= 1 THEN arr
    ELSE LET init == sort(SubSeq(arr, 1, Len(arr) - 1))
             x    == arr[Len(arr)]
             k    == Cardinality({i \in 1..Len(init) : compareHunks(init[i], x) <= 0}) IN
         SubSeq(init, 1, k) \o <<x>> \o SubSeq(init, k + 1, Len(init))

\* slip: the hunks are applied in the order they are given
sorted_inputOrder(hunks) == hunks

\* const sorted = [...hunks].sort(...)
sorted(hunks) == sort(hunks)

\* the loop over the sorted hunks
RECURSIVE spliceAll(_, _)
spliceAll(fileLines, hunks) ==
    IF Len(hunks) = 0 THEN fileLines
    ELSE spliceAll(splice(fileLines, Head(hunks).oldStart - 1,
                          contextAndRemoveCount(Head(hunks)), addLines(Head(hunks))),
                   Tail(hunks))

applyHunks(content, hunks) ==
    join(spliceAll(split(content, "\n"), sorted(hunks)), "\n")

---------------------------------------------------------------------------
(* Inputs of applyHunks                                                    *)

\* the text of a line
LineTexts == {<<"a">>, <<"b">>}

\* the rearrangements of a sequence
Rearrangements(seq) ==
    { [i \in 1..Len(seq) |-> seq[p[i]]] :
        p \in {q \in [1..Len(seq) -> 1..Len(seq)] :
                 \A i, j \in 1..Len(seq) : q[i] = q[j] => i = j} }

\* the members of a set of numbers, ascending
Ascending(S) ==
    CHOOSE f \in [1..Cardinality(S) -> S] :
        \A i, j \in 1..Cardinality(S) : i < j => f[i] < f[j]

\* An edit script tells how text B is made from text A, line by line: "=" keeps
\* a line outside every hunk, " " keeps it as context of a hunk, "-" removes a
\* line of A and "+" adds a line of B.
EditOps == [tag : {"=", " ", "-", "+"}, text : LineTexts]

onOldSide(op) == op.tag \in {"=", " ", "-"}
onNewSide(op) == op.tag \in {"=", " ", "+"}

textsOf(ops) == [i \in 1..Len(ops) |-> ops[i].text]

OldLines(script) == textsOf(SelectSeq(script, onOldSide))
NewLines(script) == textsOf(SelectSeq(script, onNewSide))

\* the scripts between two texts of at least one line each
EditScripts ==
    { sc \in UNION { [1..n -> EditOps] : n \in 1..MaxEdit } :
        Len(OldLines(sc)) > 0 /\ Len(NewLines(sc)) > 0 }

\* The hunk of the unified diff that starts at op i of the script: the run of
\* ops up to the next "=". A range of the header that holds no line is
\* numbered by the line before it, any other by its first line.
hunkOfScript(script, i) ==
    LET j == CHOOSE m \in i..Len(script) :
                 /\ \A n \in i..m : script[n].tag # "="
                 /\ m = Len(script) \/ script[m + 1].tag = "="
        body      == SubSeq(script, i, j)
        oldCount  == Len(SelectSeq(body, onOldSide))
        newCount  == Len(SelectSeq(body, onNewSide))
        oldBefore == Len(SelectSeq(SubSeq(script, 1, i - 1), onOldSide))
        newBefore == Len(SelectSeq(SubSeq(script, 1, i - 1), onNewSide)) IN
    PatchHunk(IF oldCount = 0 THEN oldBefore ELSE oldBefore + 1, oldCount,
              IF newCount = 0 THEN newBefore ELSE newBefore + 1, newCount,
              [n \in 1..Len(body) |-> <<body[n].tag>> \o body[n].text])

\* the hunks of the unified diff of a script, from the top of the file down
hunksOfScript(script) ==
    LET starts == {i \in 1..Len(script) :
                     script[i].tag # "=" /\ (i = 1 \/ script[i - 1].tag = "=")}
        order  == Ascending(starts) IN
    [n \in 1..Len(order) |-> hunkOfScript(script, order[n])]

\* applyHunks(content, hunks) for a diff from A to B, its hunks in any order
DiffInputs ==
    UNION { { [ content |-> join(OldLines(sc), "\n"),
                hunks   |-> hunks,
                target  |-> Str(join(NewLines(sc), "\n")) ] :
              hunks \in Rearrangements(hunksOfScript(sc)) } : sc \in EditScripts }

\* the files of one to MaxLines lines
FileLines == UNION { [1..n -> LineTexts] : n \in 1..MaxLines }

\* the hunk that covers `covered` lines of the file from oldStart on, each
\* kept or removed as `tags` tell, and then adds the lines `added`
hunkOver(fileLines, oldStart, covered, tags, added) ==
    PatchHunk(oldStart, covered, oldStart,
              Cardinality({i \in 1..covered : tags[i] = " "}) + Len(added),
              [i \in 1..covered |-> <<tags[i]>> \o fileLines[oldStart + i - 1]]
                \o [i \in 1..Len(added) |-> <<"+">> \o added[i]])

\* The hunks of any kind for a file: they cover some lines of it and add at
\* most one line. A hunk that covers no line may name any position from 0 to
\* one past the last line.
HunksFor(fileLines) ==
    UNION { UNION { { hunkOver(fileLines, oldStart, covered, tags, added) :
                        tags \in [1..covered -> {"-", " "}],
                        added \in {<<>>} \cup { <<t>> : t \in LineTexts } } :
                    oldStart \in IF covered = 0
                                 THEN 0..(Len(fileLines) + 1)
                                 ELSE 1..(Len(fileLines) - covered + 1) } :
            covered \in 0..Len(fileLines) }

\* a hunk has at least one edit line
wellFormed(hunk) == Len(hunk.lines) > 0

\* the lines of the old file a hunk covers
oldRange(hunk) == hunk.oldStart..(hunk.oldStart + hunk.oldCount - 1)

nonOverlapping(h1, h2) == oldRange(h1) \cap oldRange(h2) = {}

\* applyHunks(content, hunks) for one hunk or two non-overlapping hunks of any kind
HunkInputs ==
    UNION { LET hs == {h \in HunksFor(ls) : wellFormed(h)} IN
            { [content |-> join(ls, "\n"), hunks |-> hunks, target |-> Undefined] :
                hunks \in { <<h>> : h \in hs }
                          \cup { <<h[1], h[2]>> :
                                   h \in {q \in hs \X hs : nonOverlapping(q[1], q[2])} } } :
            ls \in FileLines }

\* an edit line of a hunk: its prefix and its text
HunkLines == { <<prefix>> \o text : prefix \in {" ", "+", "-"}, text \in LineTexts }

\* applyHunks(content, hunks) for one hunk written without regard to the file:
\* any oldStart from 0 to one past the last line the longest file has, any one
\* to MaxLines edit lines, and counts that are right or are 0
AnyHunkInputs ==
    { [ content |-> join(ls, "\n"),
        hunks   |-> << PatchHunk(oldStart,
                                 IF counted THEN contextAndRemoveCount([lines |-> body]) ELSE 0,
                                 oldStart,
                                 IF counted THEN Len(addLines([lines |-> body])) ELSE 0,
                                 body) >>,
        target  |-> Undefined ] :
        ls \in FileLines,
        oldStart \in 0..(MaxLines + 1),
        body \in UNION { [1..n -> HunkLines] : n \in 1..MaxLines },
        counted \in BOOLEAN }

\* a run that has not returned
Given(in) ==
    [done |-> FALSE, content |-> in.content, hunks |-> in.hunks, target |-> in.target]

\* a run that has returned `result`
Returned(run, result) ==
    [done |-> TRUE, content |-> run.content, hunks |-> run.hunks,
     target |-> run.target, result |-> result]

HunkInit ==
    /\ Constructed
    /\ PatchIdle /\ ParseIdle /\ LoggerIdle /\ HostIdle
    /\ \E in \in DiffInputs \cup HunkInputs \cup AnyHunkInputs : hunkRun = Given(in)

\* applyHunks runs and returns
ApplyHunks ==
    /\ ~hunkRun.done
    /\ hunkRun' = Returned(hunkRun, applyHunks(hunkRun.content, hunkRun.hunks))
    /\ UNCHANGED <<pipelineVars, disk, patchCall, parseRun, loggerVars, hostVars>>

HunkNext == ApplyHunks

HunkSpec == HunkInit /\ [][HunkNext]_vars

---------------------------------------------------------------------------
(* Patch engine: parsePatch                                                *)

\* String.prototype.endsWith
endsWith(s, suffix) ==
    Len(s) >= Len(suffix) /\ SubSeq(s, Len(s) - Len(suffix) + 1, Len(s)) = suffix

\* String.prototype.trimEnd
RECURSIVE trimEnd(_)
trimEnd(s) ==
    IF Len(s) > 0 /\ s[Len(s)] \in WhiteSpace THEN trimEnd(SubSeq(s, 1, Len(s) - 1)) ELSE s

\* String.prototype.trim
trim(s) == trimEnd(trimStart(s))

\* the string has `part` at position i (from 1)
hasAt(s, i, part) ==
    i >= 1 /\ i + Len(part) - 1 <= Len(s) /\ SubSeq(s, i, i + Len(part) - 1) = part

Digits == <<"0", "1", "2", "3", "4", "5", "6", "7", "8", "9">>

isDigit(c) == \E i \in 1..Len(Digits) : Digits[i] = c

digitValue(c) == (CHOOSE i \in 1..Len(Digits) : Digits[i] = c) - 1

\* how many characters \d+ takes from position i on
RECURSIVE digitRun(_, _)
digitRun(s, i) ==
    IF i <= Len(s) /\ isDigit(s[i]) THEN 1 + digitRun(s, i + 1) ELSE 0

\* parseInt(digits, 10), for a string of digits
RECURSIVE parseInt(_)
parseInt(digits) ==
    IF Len(digits) = 0 THEN 0
    ELSE parseInt(SubSeq(digits, 1, Len(digits) - 1)) * 10 + digitValue(digits[Len(digits)])

\* (\d+)(?:,(\d+))? at position i: the first group, the second group when it is
\* there, and the position after the match
rangeAt(s, i) ==
    LET n        == digitRun(s, i)
        comma    == i + n
        m        == IF hasAt(s, comma, <<",">>) THEN digitRun(s, comma + 1) ELSE 0 IN
    [ found    |-> n > 0,
      start    |-> SubSeq(s, i, i + n - 1),
      hasCount |-> m > 0,
      count    |-> SubSeq(s, comma + 1, comma + m),
      next     |-> IF m > 0 THEN comma + 1 + m ELSE comma ]

\* /@@ -(\d+)(?:,(\d+))? \+(\d+)(?:,(\d+))? @@/ matches at position i
headerAt(s, i) ==
    /\ hasAt(s, i, <<"@", "@", " ", "-">>)
    /\ rangeAt(s, i + 4).found
    /\ hasAt(s, rangeAt(s, i + 4).next, <<" ", "+">>)
    /\ rangeAt(s, rangeAt(s, i + 4).next + 2).found
    /\ hasAt(s, rangeAt(s, rangeAt(s, i + 4).next + 2).next, <<" ", "@", "@">>)

\* line.match(...) finds the pattern somewhere in the line
headerMatches(line) == \E i \in 1..Len(line) : headerAt(line, i)

\* the hunk of the header the pattern finds first; a count left out is 1
hunkOfHeader(line) ==
    LET i   == CHOOSE k \in 1..Len(line) :
                   headerAt(line, k) /\ \A j \in 1..(k - 1) : ~headerAt(line, j)
        old == rangeAt(line, i + 4)
        new == rangeAt(line, old.next + 2) IN
    PatchHunk(parseInt(old.start), IF old.hasCount THEN parseInt(old.count) ELSE 1,
              parseInt(new.start), IF new.hasCount THEN parseInt(new.count) ELSE 1,
              <<>>)

\* interface PatchFile
PatchFile(oldPath, newPath, hunks) ==
    [oldPath |-> oldPath, newPath |-> newPath, hunks |-> hunks]

\* currentFile = null
NoFile == [type |-> "null"]

\* The variables of parsePatch. currentFile is one object with its entries in
\* `files`: pushedAt holds the indices of those entries. currentHunk is 0 for
\* null and else the index of the hunk in currentFile.hunks.
parseStart ==
    [files |-> <<>>, currentFile |-> NoFile, pushedAt |-> {}, currentHunk |-> 0]

\* an assignment to a field of currentFile, seen through every entry of it
withCurrentFile(st, file) ==
    [st EXCEPT !.currentFile = file,
               !.files = [i \in 1..Len(st.files) |->
                            IF i \in st.pushedAt THEN file ELSE st.files[i]]]

\* the "--- " branch
startFile(st, line) ==
    [st EXCEPT !.currentFile = PatchFile(trim(slice(line, 4)), <<>>, <<>>),
               !.pushedAt = {},
               !.currentHunk = 0]

\* the "+++ " branch
commitFile(st, line) ==
    IF st.currentFile = NoFile THEN st
    ELSE LET named == withCurrentFile(st, [st.currentFile EXCEPT
                                              !.newPath = trim(slice(line, 4))]) IN
         [named EXCEPT !.files = Append(named.files, named.currentFile),
                       !.pushedAt = named.pushedAt \cup {Len(named.files) + 1}]

\* the "@@ " branch
startHunk(st, line) ==
    IF headerMatches(line) /\ st.currentFile # NoFile
    THEN LET file == [st.currentFile EXCEPT !.hunks = Append(@, hunkOfHeader(line))] IN
         [withCurrentFile(st, file) EXCEPT !.currentHunk = Len(file.hunks)]
    ELSE st

\* slip: only added and removed lines are kept, context lines are dropped
isEditLine_noContext(line) ==
    startsWith(line, <<"+">>) \/ startsWith(line, <<"-">>)

\* the lines pushed to currentHunk.lines
isEditLine(line) ==
    startsWith(line, <<"+">>) \/ startsWith(line, <<"-">>) \/ startsWith(line, <<" ">>)

\* the branch of the lines under a hunk header
pushLine(st, line) ==
    IF isEditLine(line)
    THEN withCurrentFile(st, [st.currentFile EXCEPT
                                 !.hunks[st.currentHunk].lines = Append(@, line)])
    ELSE st

\* the body of the loop over the lines
parseLine(st, line) ==
    IF startsWith(line, <<"-", "-", "-", " ">>) THEN startFile(st, line)
    ELSE IF startsWith(line, <<"+", "+", "+", " ">>) THEN commitFile(st, line)
    ELSE IF startsWith(line, <<"@", "@", " ">>) THEN startHunk(st, line)
    ELSE IF st.currentHunk # 0 THEN pushLine(st, line)
    ELSE st

RECURSIVE parseLines(_, _)
parseLines(st, lines) ==
    IF Len(lines) = 0 THEN st ELSE parseLines(parseLine(st, Head(lines)), Tail(lines))

parsePatch(patchText) == parseLines(parseStart, split(patchText, "\n")).files

---------------------------------------------------------------------------
(* Patch engine: paths and the file system (POSIX)                         *)

\* path.isAbsolute
isAbsolute(p) == startsWith(p, <<"/">>)

\* the names between the slashes of a path, without the empty ones and "."
isName(segment) == Len(segment) > 0 /\ segment # <<".">>
segments(p) == SelectSeq(split(p, "/"), isName)

\* the names that are left when each ".." has taken back the name before it
RECURSIVE collapse(_, _)
collapse(kept, rest) ==
    IF Len(rest) = 0 THEN kept
    ELSE IF Head(rest) = <<".", ".">>
         THEN collapse(SubSeq(kept, 1, Len(kept) - 1), Tail(rest))
         ELSE collapse(Append(kept, Head(rest)), Tail(rest))

\* path.resolve(baseDir, p), for an absolute baseDir
resolve(baseDir, p) ==
    <<"/">> \o join(collapse(<<>>, IF isAbsolute(p)
                                THEN segments(p)
                                ELSE segments(baseDir) \o segments(p)), "/")

\* path.dirname, for an absolute path
dirname(p) ==
    LET names == collapse(<<>>, segments(p)) IN
    <<"/">> \o join(SubSeq(names, 1, Len(names) - 1), "/")

\* the file a path names for the operating system
realpath(p) == resolve(<<"/">>, p)

\* the directories above a path, and the path itself
ancestors(p) ==
    LET names == segments(realpath(p)) IN
    { <<"/">> \o join(SubSeq(names, 1, n), "/") : n \in 0..Len(names) }

\* the character device /dev/null: it reads as empty and keeps nothing written
DevNull == <<"/", "d", "e", "v", "/", "n", "u", "l", "l">>

\* a file system: the content of each file, and the directories
Disk(files, dirs) == [files |-> files, dirs |-> dirs]

\* what a call of fs returns or throws: err.message is "" when it returns
Done(d) == [disk |-> d, message |-> ""]
Thrown(d, message) == [disk |-> d, message |-> message]

isFile(d, p) == realpath(p) \in DOMAIN d.files
isDirectory(d, p) == realpath(p) \in d.dirs

\* fs.existsSync
existsSync(d, p) == isFile(d, p) \/ isDirectory(d, p)

\* fs.mkdirSync(dir, { recursive: true })
mkdirSync(d, dir) ==
    IF \E a \in ancestors(dir) : isFile(d, a)
    THEN Thrown(d, "ENOTDIR: not a directory, mkdir ")
    ELSE Done([d EXCEPT !.dirs = @ \cup ancestors(dir)])

\* fs.writeFileSync
writeFileSync(d, p, data) ==
    IF isDirectory(d, p) THEN Thrown(d, "EISDIR: illegal operation on a directory, open ")
    ELSE IF isFile(d, dirname(realpath(p))) THEN Thrown(d, "ENOTDIR: not a directory, open ")
    ELSE IF ~isDirectory(d, dirname(realpath(p)))
    THEN Thrown(d, "ENOENT: no such file or directory, open ")
    ELSE IF realpath(p) = DevNull /\ isFile(d, p) THEN Done(d)
    ELSE Done([d EXCEPT !.files = set(@, realpath(p), data)])

\* fs.unlinkSync; `privileged` tells whether the process may remove a device
unlinkSync(d, p, privileged) ==
    IF isDirectory(d, p) THEN Thrown(d, "EISDIR: illegal operation on a directory, unlink ")
    ELSE IF ~isFile(d, p) THEN Thrown(d, "ENOENT: no such file or directory, unlink ")
    ELSE IF realpath(p) = DevNull /\ ~privileged
    THEN Thrown(d, "EACCES: permission denied, unlink ")
    ELSE Done([d EXCEPT !.files = [k \in (DOMAIN @) \ {realpath(p)} |-> @[k]]])

\* fs.readFileSync(p, "utf8"), of a file that exists
readFileSync(d, p) == d.files[realpath(p)]

---------------------------------------------------------------------------
(* Patch engine: the apply_patch tool                                      *)

\* resolvePatchPath
resolvePatchPath(patchPath, baseDir) ==
    LET cleaned == IF startsWith(patchPath, <<"a", "/">>) \/ startsWith(patchPath, <<"b", "/">>)
                   THEN slice(patchPath, 2)
                   ELSE patchPath IN
    IF isAbsolute(cleaned) THEN cleaned ELSE resolve(baseDir, cleaned)

\* the test of the create branch, on file.oldPath
isCreate(file) ==
    \/ file.oldPath = <<"/", "d", "e", "v", "/", "n", "u", "l", "l">>
    \/ file.oldPath = <<"a", "/", "/", "d", "e", "v", "/", "n", "u", "l", "l">>
    \/ endsWith(file.oldPath, <<"/", "d", "e", "v", "/", "n", "u", "l", "l">>)

\* the test of the delete branch, on file.newPath
isDelete(file) ==
    \/ file.newPath = <<"/", "d", "e", "v", "/", "n", "u", "l", "l">>
    \/ file.newPath = <<"b", "/", "/", "d", "e", "v", "/", "n", "u", "l", "l">>
    \/ endsWith(file.newPath, <<"/", "d", "e", "v", "/", "n", "u", "l", "l">>)

\* slip: the context lines are taken for content too
isAddLine_orContext(line) == startsWith(line, <<"+">>) \/ startsWith(line, <<" ">>)

\* the filter of the create branch
isAddLine(line) == startsWith(line, <<"+">>)

\* Array.prototype.flatMap over the hunks: the text of the lines the filter keeps
RECURSIVE addedTexts(_)
addedTexts(hunks) ==
    IF Len(hunks) = 0 THEN <<>>
    ELSE LET kept == SelectSeq(Head(hunks).lines, isAddLine) IN
         [i \in 1..Len(kept) |-> slice(kept[i], 1)] \o addedTexts(Tail(hunks))

newContent(file) == join(addedTexts(file.hunks), "\n")

\* a piece of the result string: a text of the program followed by a path
Piece(text, path) == [text |-> text, path |-> path]

\* what the body of the loop does for one file: it pushes a line to results,
\* or returns, or throws
Pushed(d, text, filePath) == [disk |-> d, ended |-> FALSE, report |-> <<Piece(text, filePath)>>]
Left(d, report) == [disk |-> d, ended |-> TRUE, report |-> report]
Caught(call, filePath) ==
    Left(call.disk,
              << Piece(" applying patch: ", <<>>),
                 Piece(call.message, filePath),
                 Piece("\n\nYou can also use the Write tool (for new/full files) or Edit tool (for string replacements) instead.", <<>>) >>)

\* the create branch
createFile(d, file, filePath) ==
    LET dir     == dirname(filePath)
        made    == IF ~existsSync(d, dir) THEN mkdirSync(d, dir) ELSE Done(d)
        written == writeFileSync(made.disk, filePath, newContent(file)) IN
    IF made.message # "" THEN Caught(made, dir)
    ELSE IF written.message # "" THEN Caught(written, filePath)
    ELSE Pushed(written.disk, "Created: ", filePath)

\* the delete branch
deleteFile(d, file, filePath, privileged) ==
    IF existsSync(d, filePath)
    THEN LET removed == unlinkSync(d, filePath, privileged) IN
         IF removed.message # "" THEN Caught(removed, filePath)
         ELSE Pushed(removed.disk, "Deleted: ", filePath)
    ELSE Pushed(d, "Skipped (already gone): ", filePath)

\* slip: a missing target is not noticed
targetMissing_never(d, filePath) == FALSE

\* the check of the modify branch
targetMissing(d, filePath) == ~existsSync(d, filePath)

\* the modify branch
modifyFile(d, file, filePath) ==
    IF targetMissing(d, filePath)
    THEN Left(d, << Piece(": File not found: ", filePath),
                         Piece(". Use --- /dev/null for new file creation.", <<>>) >>)
    ELSE IF ~isFile(d, filePath)
    THEN Caught(Thrown(d, IF isDirectory(d, filePath)
                          THEN "EISDIR: illegal operation on a directory, read"
                          ELSE "ENOENT: no such file or directory, open "), filePath)
    ELSE LET original == readFileSync(d, filePath)
             modified == applyHunks(original, file.hunks)
             written  == writeFileSync(d, filePath, modified) IN
         IF written.message # "" THEN Caught(written, filePath)
         ELSE Pushed(written.disk, "Modified: ", filePath)

\* the body of the loop over the files
applyFile(d, file, directory, privileged) ==
    LET filePath == resolvePatchPath(file.newPath, directory) IN
    IF isCreate(file) THEN createFile(d, file, filePath)
    ELSE IF isDelete(file) THEN deleteFile(d, file, filePath, privileged)
    ELSE modifyFile(d, file, filePath)

\* slip: the loop goes on after a file has failed
leavesLoop_never(step) == FALSE

\* the body of the loop has returned or thrown
leavesLoop(step) == step.ended

\* the results of apply_patch
Success(results) == [head |-> "Patch applied successfully:", report |-> results]
Error(report) == [head |-> "ERROR", report |-> report]

\* the loop over the files, and the return after it
RECURSIVE forEachFile(_, _, _, _, _)
forEachFile(d, files, results, directory, privileged) ==
    IF Len(files) = 0 THEN [disk |-> d, res |-> Success(results)]
    ELSE LET step == applyFile(d, Head(files), directory, privileged) IN
         IF leavesLoop(step)
         THEN [disk |-> step.disk, res |-> Error(step.report)]
         ELSE forEachFile(step.disk, Tail(files), results \o step.report,
                          directory, privileged)

\* applyPatch.execute, for the files parsePatch has found
applyFiles(d, files, directory, privileged) ==
    IF Len(files) = 0
    THEN [disk |-> d,
          res |-> Error(<< Piece(": Could not parse any file changes from the patch. Make sure the patch is in unified diff format with --- and +++ headers. Alternatively, use the Write tool (to create files) or Edit tool (to modify files).", <<>>) >>)]
    ELSE forEachFile(d, files, <<>>, directory, privileged)


---------------------------------------------------------------------------
(* Inputs of apply_patch                                                   *)

\* ctx.directory
directory == <<"/", "w">>

\* a patch that creates notes/todo.txt with the lines a and b
CreateTodo ==
    << <<"-", "-", "-", " ", "/", "d", "e", "v", "/", "n", "u", "l", "l">>, <<"+", "+", "+", " ", "b", "/", "n", "o", "t", "e", "s", "/", "t", "o", "d", "o", ".", "t", "x", "t">>, <<"@", "@", " ", "-", "0", ",", "0", " ", "+", "1", ",", "2", " ", "@", "@">>, <<"+", "a">>, <<"+", "b">> >>

\* a patch that creates n.txt from two hunks, which also hold a context line
\* and a remove line
CreateMixed ==
    << <<"-", "-", "-", " ", "/", "d", "e", "v", "/", "n", "u", "l", "l">>, <<"+", "+", "+", " ", "b", "/", "n", ".", "t", "x", "t">>, <<"@", "@", " ", "-", "0", ",", "0", " ", "+", "1", " ", "@", "@">>, <<"+", "a">>, <<" ", "c">>,
       <<"@", "@", " ", "-", "0", ",", "0", " ", "+", "2", " ", "@", "@">>, <<"-", "d">>, <<"+", "b">> >>

\* a patch that creates m.txt with the line a
CreateM == << <<"-", "-", "-", " ", "/", "d", "e", "v", "/", "n", "u", "l", "l">>, <<"+", "+", "+", " ", "b", "/", "m", ".", "t", "x", "t">>, <<"@", "@", " ", "-", "0", ",", "0", " ", "+", "1", " ", "@", "@">>, <<"+", "a">> >>

\* a patch that deletes f.txt, as git diff writes it
DeleteF == << <<"-", "-", "-", " ", "a", "/", "f", ".", "t", "x", "t">>, <<"+", "+", "+", " ", "/", "d", "e", "v", "/", "n", "u", "l", "l">>, <<"@", "@", " ", "-", "1", ",", "2", " ", "+", "0", ",", "0", " ", "@", "@">>, <<"-", "a">>, <<"-", "b">> >>

\* a patch that deletes g.txt
DeleteG == << <<"-", "-", "-", " ", "a", "/", "g", ".", "t", "x", "t">>, <<"+", "+", "+", " ", "/", "d", "e", "v", "/", "n", "u", "l", "l">>, <<"@", "@", " ", "-", "1", " ", "+", "0", ",", "0", " ", "@", "@">>, <<"-", "a">> >>

\* a patch that replaces the second line of f.txt
ModifyF == << <<"-", "-", "-", " ", "a", "/", "f", ".", "t", "x", "t">>, <<"+", "+", "+", " ", "b", "/", "f", ".", "t", "x", "t">>, <<"@", "@", " ", "-", "1", ",", "2", " ", "+", "1", ",", "2", " ", "@", "@">>, <<" ", "a">>, <<"-", "b">>, <<"+", "c">> >>

\* a patch that replaces the first line of g.txt
ModifyG == << <<"-", "-", "-", " ", "a", "/", "g", ".", "t", "x", "t">>, <<"+", "+", "+", " ", "b", "/", "g", ".", "t", "x", "t">>, <<"@", "@", " ", "-", "1", " ", "+", "1", " ", "@", "@">>, <<"-", "a">>, <<"+", "b">> >>

\* a text without file headers
NoHeaders == << <<"h", "e", "l", "l", "o">> >>

\* args.patch: patches of one file and of three files
PatchTexts ==
    { join(lines, "\n") :
        lines \in { CreateTodo, CreateMixed, DeleteF, DeleteG, ModifyF, ModifyG, NoHeaders,
                    CreateTodo \o ModifyG \o CreateM,
                    ModifyF \o DeleteG \o CreateM,
                    DeleteF \o ModifyG \o CreateM } }

\* const files = parsePatch(args.patch), for each patch of the inputs
parsedFiles == [patch \in PatchTexts |-> parsePatch(patch)]

\* applyPatch.execute
applyPatchExecute(d, patch, dir, privileged) ==
    applyFiles(d, parsedFiles[patch], dir, privileged)

\* the file systems apply_patch starts on: the directory of the session with
\* or without f.txt and g.txt, and the device /dev/null
InitialDisks ==
    { Disk([p \in {DevNull} \cup present |->
              CASE p = DevNull    -> <<>>
                [] p = <<"/", "w", "/", "f", ".", "t", "x", "t">> -> <<"a", "\n", "b">>
                [] p = <<"/", "w", "/", "g", ".", "t", "x", "t">> -> <<"a">>],
           {<<"/">>, <<"/", "d", "e", "v">>, <<"/", "w">>}) :
        present \in SUBSET {<<"/", "w", "/", "f", ".", "t", "x", "t">>, <<"/", "w", "/", "g", ".", "t", "x", "t">>} }

\* no call of apply_patch has been made
NoPatchCall ==
    [ patch |-> <<>>, files |-> <<>>, privileged |-> FALSE,
      res |-> [head |-> "", report |-> <<>>], pre |-> Disk(<<>>, {}) ]

PatchInit ==
    /\ Constructed
    /\ HunkIdle /\ ParseIdle /\ LoggerIdle /\ HostIdle
    /\ disk \in InitialDisks
    /\ patchCall = NoPatchCall

\* the apply_patch tool
ApplyPatch(patch, privileged) ==
    LET r == applyPatchExecute(disk, patch, directory, privileged) IN
    /\ disk' = r.disk
    /\ patchCall' = [ patch |-> patch, files |-> parsedFiles[patch],
                      privileged |-> privileged, res |-> r.res, pre |-> disk ]
    /\ UNCHANGED <<pipelineVars, hunkRun, parseRun, loggerVars, hostVars>>

PatchNext == \E patch \in PatchTexts, privileged \in BOOLEAN : ApplyPatch(patch, privileged)

PatchSpec == PatchInit /\ [][PatchNext]_vars

---------------------------------------------------------------------------
(* Vocabulary of the claims                                                *)

\* the last call was pipeline_advance for a session that had state
AdvanceCalled == last.op = "pipeline_advance" /\ has(last.pre, last.sid)

\* the last pipeline_advance call returned "ERROR: ..."
Errored == last.res[1] = "ERROR:"

\* the last pipeline_advance call returned "Advanced to ..."
Advanced == last.res[1] = "Advanced to "

\* the caller's state before and after the last call
Before == last.pre[last.sid]
After == sessions[last.sid]

\* the transition table of the specification: <<phase, alias, target>>
SpecTable ==
    { <<"brainstorming", "refine", "refining">>,
      <<"refining", "dispatch", "dispatching">>,
      <<"reviewing", "iterate", "dispatching">>,
      <<"reviewing", "report", "reporting">>,
      <<"reporting", "complete", "complete">> }

---------------------------------------------------------------------------
(* C1. advance(alias) changes the phase only for the (phase, alias) pairs  *)
(* of the transition table, and then to the table's target; every other    *)
(* pair, such as iterate in refining or dispatch in reviewing, is an error.*)
C1_AdvanceFollowsTable ==
    (AdvanceCalled /\ Advanced) => <<Before.phase, last.arg, After.phase>> \in SpecTable

(* C2. Every pipeline_advance call that returns an error leaves phase,     *)
(* iterations, dispatches and gitDiffCalled of the session as they were,   *)
(* and a session without state still has none.                             *)
C2_ErrorLeavesCounters ==
    (last.op = "pipeline_advance" /\ Errored) =>
        /\ has(sessions, last.sid) <=> has(last.pre, last.sid)
        /\ has(sessions, last.sid) =>
              /\ After.phase = Before.phase
              /\ After.iterations = Before.iterations
              /\ After.dispatches = Before.dispatches
              /\ After.gitDiffCalled = Before.gitDiffCalled

\* an erroring call whose lazy probe did change the state's isGitRepo
C2_Witness ==
    /\ AdvanceCalled /\ Errored
    /\ Before.isGitRepo = GitNull /\ After.isGitRepo # GitNull

(* C3. In every reachable state iterations is an integer of 0..3.          *)
C3_IterationsBounded ==
    \A sid \in DOMAIN sessions : sessions[sid].iterations \in 0..3

\* the third retry has been granted
C3_Witness ==
    /\ AdvanceCalled /\ Advanced /\ last.arg = "iterate"
    /\ Before.iterations = 2 /\ After.iterations = 3

(* C4. In reviewing with iterations = 3 the only advance call that can     *)
(* succeed is report; none moves the phase back to dispatching.            *)
C4_OnlyReportAtCap ==
    (AdvanceCalled /\ Before.phase = "reviewing" /\ Before.iterations = 3 /\ Advanced) =>
        last.arg = "report" /\ After.phase # "dispatching"

(* C5. advance(iterate) with iterations = 3 returns an error and changes   *)
(* nothing of the session's state, in whatever phase it is called.         *)
C5_IterateAtCapErrors ==
    (AdvanceCalled /\ last.arg = "iterate" /\ Before.iterations = 3) =>
        Errored /\ entry(sessions, last.sid) = last.pre

\* the cap itself refused the call, in reviewing
C5_Witness ==
    /\ AdvanceCalled /\ last.arg = "iterate" /\ Before.iterations = 3
    /\ Before.phase = "reviewing"
    /\ last.res = <<"ERROR:", "Maximum iterations reached">>

(* C6. A successful advance(iterate) from reviewing with iterations = n    *)
(* has n < 3 and yields phase dispatching, iterations n + 1, dispatches    *)
(* one more, gitDiffCalled false, and no other change.                     *)
C6_IterateEffect ==
    (AdvanceCalled /\ last.arg = "iterate" /\ Before.phase = "reviewing" /\ Advanced) =>
        /\ Before.iterations < 3
        /\ After = [Before EXCEPT !.phase = "dispatching",
                                  !.iterations = Before.iterations + 1,
                                  !.dispatches = Before.dispatches + 1,
                                  !.gitDiffCalled = FALSE]

\* the retry reset a flag that was set
C6_Witness ==
    /\ AdvanceCalled /\ last.arg = "iterate" /\ Before.phase = "reviewing" /\ Advanced
    /\ Before.gitDiffCalled /\ ~After.gitDiffCalled

C8_NoGitWaiver ==
    (AdvanceCalled /\ last.arg = "report" /\ Before.phase = "reviewing") =>
        /\ After.isGitRepo = GitFalse => Advanced /\ After.phase = "reporting"
        /\ (Advanced /\ ~Before.gitDiffCalled) => After.isGitRepo = GitFalse

\* the waiver was used
C8_Witness ==
    /\ AdvanceCalled /\ last.arg = "report" /\ Before.phase = "reviewing"
    /\ ~Before.gitDiffCalled /\ After.isGitRepo = GitFalse
    /\ After.phase = "reporting"

(* C9. gitDiffCalled is false every time the phase enters reviewing, and   *)
(* in a git repository advance(report) succeeds only if a qualifying git   *)
(* diff was observed after the most recent entry into reviewing.           *)
C9_GitDiffPerCycle ==
    /\ (/\ last.op = "tool.execute.after" /\ has(last.pre, last.sid)
        /\ Before.phase # "reviewing" /\ After.phase = "reviewing") =>
            ~After.gitDiffCalled
    /\ (/\ AdvanceCalled /\ last.arg = "report" /\ Before.phase = "reviewing"
        /\ After.isGitRepo = GitTrue /\ Advanced) =>
            last.preSeen[last.sid] = "current"

(* C10. For a primary session with state, a Task tool call is rejected     *)
(* exactly when phase is not dispatching, and the hook leaves the state as *)
(* it was.                                                                 *)
C10_TaskOnlyInDispatching ==
    (/\ last.op = "tool.execute.before" /\ isTaskTool(last.arg)
     /\ last.sid \in knownPrimarySessions /\ has(sessions, last.sid)) =>
        /\ (last.res[1] = "throw") <=> (After.phase # "dispatching")
        /\ entry(sessions, last.sid) = last.pre

\* a Task call rejected in refining
C10_Witness ==
    /\ last.op = "tool.execute.before" /\ isTaskTool(last.arg)
    /\ has(sessions, last.sid) /\ After.phase = "refining"
    /\ last.res = <<"throw", "BLOCKED: Task">>


\* the last call was made for a session that had state before it and has state now
StateCall == has(last.pre, last.sid) /\ has(sessions, last.sid)

\* the names of the direct file-mutation tools
FileMutationTools ==
    { <<"w", "r", "i", "t", "e">>, <<"W", "r", "i", "t", "e">>,
      <<"e", "d", "i", "t">>, <<"E", "d", "i", "t">> }

(* C11. For a session that has Pipeline State, every call of a direct      *)
(* file-mutation tool (write, edit) is rejected by the tool gate, in every *)
(* phase and whatever the counters are.                                    *)
C11_OrchestratorNeverWrites ==
    (/\ last.op = "tool.execute.before" /\ has(sessions, last.sid)
     /\ last.arg \in FileMutationTools) =>
        last.res[1] = "throw"

\* Edit rejected while the implementer is at work (phase dispatching)
C11_Witness ==
    /\ last.op = "tool.execute.before" /\ has(sessions, last.sid)
    /\ last.arg = <<"E", "d", "i", "t">>
    /\ sessions[last.sid].phase = "dispatching"
    /\ last.res = <<"throw", "BLOCKED: edit">>

(* C12. A tool call of a session never registered by a user turn is        *)
(* rejected if and only if its name, lower-cased, is not in the allow-list;*)
(* the dispatch tool task is always rejected there.                        *)
C12_SubagentAllowList ==
    (last.op = "tool.execute.before" /\ last.sid \notin knownPrimarySessions) =>
        /\ (last.res[1] = "throw") <=> (toLowerCase(last.arg) \notin SUBAGENT_ALLOWED_TOOLS)
        /\ toLowerCase(last.arg) = <<"t", "a", "s", "k">> => last.res[1] = "throw"

\* a name that is in the list only after lower-casing is let through
C12_Witness ==
    /\ last.op = "tool.execute.before" /\ last.sid \notin knownPrimarySessions
    /\ last.arg = <<"W", "r", "i", "t", "e">>
    /\ last.res = <<"return">>

\* the text of a completion's output contains one of the failure markers
HasFailureMarker(c) ==
    /\ c.output # Undefined
    /\ \E i \in 1..Len(failureMarkers) : includes(c.output.text, failureMarkers[i])

(* C13. When a Task completion is observed: in phase dispatching with an   *)
(* output free of failure markers the phase becomes reviewing and nothing  *)
(* else changes; in dispatching with a marker no field changes; in any     *)
(* other phase no field changes.                                           *)
C13_TaskAutoAdvance ==
    (last.op = "tool.execute.after" /\ StateCall /\ isTaskTool(last.arg.tool)) =>
        IF Before.phase = "dispatching" /\ ~HasFailureMarker(last.arg)
        THEN After = [Before EXCEPT !.phase = "reviewing"]
        ELSE After = Before

\* a Task that reports a marker other than the first leaves the session in dispatching
C13_Witness ==
    /\ last.op = "tool.execute.after" /\ StateCall /\ isTaskTool(last.arg.tool)
    /\ Before.phase = "dispatching"
    /\ last.arg.output = Str(<<"a", "g", "e", "n", "t", " ", "c", "r", "a", "s", "h", "e", "d">>)
    /\ After.phase = "dispatching"


\* gitDiffCalled of the caller went from false to true in the last call
FlagRaised == StateCall /\ ~Before.gitDiffCalled /\ After.gitDiffCalled

\* the last call was the completion of a shell call in phase reviewing
BashDuringReview ==
    /\ last.op = "tool.execute.after" /\ StateCall
    /\ isBashTool(last.arg.tool)
    /\ Before.phase = "reviewing"

GitDiffText == <<"g", "i", "t", " ", "d", "i", "f", "f">>

(* C14 as stated. gitDiffCalled becomes true only through a completed      *)
(* shell call whose command begins with "git diff", observed in reviewing. *)
C14_OnlyLiteralPrefix ==
    FlagRaised =>
        /\ BashDuringReview
        /\ last.arg.command.type = "string"
        /\ startsWith(last.arg.command.text, GitDiffText)

(* C14, amended. gitDiffCalled becomes true only through a completed shell *)
(* call, observed in reviewing, whose command begins with "git diff" once  *)
(* its leading white space is removed; every other completion leaves       *)
(* gitDiffCalled as it was.                                                *)
C14_OnlyTrimmedPrefix ==
    LET qualifies ==
          /\ BashDuringReview
          /\ last.arg.command.type = "string"
          /\ startsWith(trimStart(last.arg.command.text), GitDiffText)
    IN  /\ FlagRaised => qualifies
        /\ (last.op = "tool.execute.after" /\ StateCall /\ ~qualifies) =>
              After.gitDiffCalled = Before.gitDiffCalled

\* an indented git diff raised the flag
C14_Witness ==
    /\ FlagRaised /\ BashDuringReview
    /\ last.arg.command =
          Str(<<" ", " ", "g", "i", "t", " ", "d", "i", "f", "f", " ", "-", "-", "s", "t", "a", "t">>)

(* C15. An orchestrator user turn that arrives in phase complete replaces  *)
(* the state by phase brainstorming, iterations 0, dispatches 0,           *)
(* gitDiffCalled false, isGitRepo Unknown; one that arrives in any other   *)
(* phase leaves every field as it was.                                     *)
C15_ResetOnlyWhenComplete ==
    (last.op = "chat.message" /\ last.arg = ORCHESTRATOR_AGENT /\ has(last.pre, last.sid)) =>
        /\ has(sessions, last.sid)
        /\ IF Before.phase = "complete"
           THEN /\ After.phase = "brainstorming"
                /\ After.iterations = 0
                /\ After.dispatches = 0
                /\ After.gitDiffCalled = FALSE
                /\ After.isGitRepo = GitNull
           ELSE After = Before

\* a finished run with retries, a git diff and a detected repository is reset
C15_Witness ==
    /\ last.op = "chat.message" /\ last.arg = ORCHESTRATOR_AGENT /\ StateCall
    /\ Before.phase = "complete" /\ Before.iterations > 0 /\ Before.gitDiffCalled
    /\ Before.isGitRepo = GitTrue
    /\ After.phase = "brainstorming"


\* the edges along which the specification lets the phase change
PhaseEdges ==
    { <<"brainstorming", "refining">>, <<"refining", "dispatching">>,
      <<"dispatching", "reviewing">>, <<"reviewing", "dispatching">>,
      <<"reviewing", "reporting">>, <<"reporting", "complete">>,
      <<"complete", "brainstorming">> }

(* C16. The phase of a session changes only along the edges brainstorming  *)
(* -> refining -> dispatching -> reviewing -> dispatching or reporting,    *)
(* reporting -> complete, complete -> brainstorming, and a new state       *)
(* starts in brainstorming; so no phase is skipped on the way to complete. *)
(* A tool-gate check, a status call and a git diff observation never       *)
(* change the phase.                                                       *)
C16_PhaseEdges ==
    /\ (has(sessions, last.sid) /\ ~has(last.pre, last.sid)) =>
          After.phase = "brainstorming"
    /\ (StateCall /\ After.phase # Before.phase) =>
          <<Before.phase, After.phase>> \in PhaseEdges
    /\ (StateCall /\ last.op \in {"tool.execute.before", "pipeline_status"}) =>
          After.phase = Before.phase
    /\ (StateCall /\ last.op = "tool.execute.after" /\ isBashTool(last.arg.tool)) =>
          After.phase = Before.phase

\* the last edge of a run: reporting to complete
C16_Witness ==
    /\ StateCall /\ last.op = "pipeline_advance"
    /\ Before.phase = "reporting" /\ After.phase = "complete"

(* C17. While phase is dispatching, no advance call and no user turn       *)
(* changes the phase: the phase leaves dispatching only through the        *)
(* completion of the Task tool with an output free of failure markers.     *)
C17_DispatchingLeavesOnlyByTask ==
    (StateCall /\ Before.phase = "dispatching" /\ After.phase # "dispatching") =>
        /\ last.op = "tool.execute.after"
        /\ isTaskTool(last.arg.tool)
        /\ ~HasFailureMarker(last.arg)

\* an advance call refused in dispatching
C17_Witness ==
    /\ AdvanceCalled /\ Before.phase = "dispatching" /\ last.arg = "report"
    /\ Errored /\ After.phase = "dispatching"


(* C18 as stated. A status call leaves every field of the session's state  *)
(* unchanged.                                                              *)
C18_StatusChangesNothing ==
    last.op = "pipeline_status" => entry(sessions, last.sid) = last.pre

(* C18, amended. A status call leaves phase, iterations, dispatches,       *)
(* gitDiffCalled and startTime unchanged and creates no state; isGitRepo   *)
(* is unchanged too unless it was Unknown, and then the call sets it to    *)
(* Yes or No.                                                              *)
C18_StatusOnlyDetectsRepo ==
    last.op = "pipeline_status" =>
        /\ has(sessions, last.sid) <=> has(last.pre, last.sid)
        /\ has(sessions, last.sid) =>
              /\ After = [Before EXCEPT !.isGitRepo = After.isGitRepo]
              /\ IF Before.isGitRepo = GitNull
                 THEN After.isGitRepo \in {GitTrue, GitFalse}
                 ELSE After.isGitRepo = Before.isGitRepo

\* the first status call of a fresh session ran the probe
C18_Witness ==
    /\ last.op = "pipeline_status" /\ StateCall
    /\ Before.isGitRepo = GitNull /\ After.isGitRepo = GitFalse

\* the position of a piece in the result of the last call
PieceAt(piece) == CHOOSE i \in 1..Len(last.res) : last.res[i] = piece

\* the aliases the last status call listed as valid transitions
ListedAliases ==
    { last.res[k] : k \in (PieceAt("Valid transitions: ") + 1)
                          .. (PieceAt("Current phase guidance: ") - 1) }
    \ {"(none -- automatic)"}

\* the aliases an advance call made in `state` would accept
AcceptedAliases(state) ==
    { a \in AdvanceTargets : advanceExecute(state, a).result[1] = "Advanced to " }

\* the prerequisite the specification attaches to an alias
PrerequisiteMet(state, a) ==
    /\ a = "iterate" => state.iterations < 3
    /\ a = "report" => (state.gitDiffCalled \/ state.isGitRepo = GitFalse)

(* C19 as stated. The aliases status lists are exactly those for which an  *)
(* advance call made in the same state would succeed.                      *)
C19_ListIsWhatAdvanceAccepts ==
    (last.op = "pipeline_status" /\ StateCall) =>
        ListedAliases = AcceptedAliases(After)

(* C19, amended. The aliases status lists are exactly the aliases of the   *)
(* transition table for the current phase, whatever iterations and         *)
(* gitDiffCalled are; an advance call with a listed alias succeeds in that *)
(* state whenever the alias's prerequisite holds (iterate: iterations < 3, *)
(* report: gitDiffCalled or isGitRepo = No).                               *)
C19_ListIsTableRow ==
    (last.op = "pipeline_status" /\ StateCall) =>
        /\ ListedAliases = { e[2] : e \in { x \in SpecTable : x[1] = After.phase } }
        /\ \A a \in ListedAliases :
              PrerequisiteMet(After, a) => a \in AcceptedAliases(After)

\* at the cap, with the git diff still needed, status lists iterate and report
\* and advance would accept neither
C19_Witness ==
    /\ last.op = "pipeline_status" /\ StateCall
    /\ After.phase = "reviewing" /\ After.iterations = 3
    /\ ~After.gitDiffCalled /\ After.isGitRepo = GitTrue
    /\ ListedAliases = {"iterate", "report"}
    /\ "iterate" \notin AcceptedAliases(After) /\ "report" \notin AcceptedAliases(After)

\* the upper-case name of a phase
UpperName(p) ==
    CASE p = "brainstorming" -> "BRAINSTORMING"
      [] p = "refining"      -> "REFINING"
      [] p = "dispatching"   -> "DISPATCHING"
      [] p = "reviewing"     -> "REVIEWING"
      [] p = "reporting"     -> "REPORTING"
      [] p = "complete"      -> "COMPLETE"

\* the last call made no transition
NoTransition == has(sessions, last.sid) => After.phase = Before.phase

(* C20 as stated. The result of advance begins with "ERROR:" exactly when  *)
(* no transition was made, and otherwise is "Advanced to <PHASE>. "        *)
(* followed by the guidance, <PHASE> being the upper-case name of the      *)
(* phase the session is in after the call.                                 *)
C20_ResultForm ==
    last.op = "pipeline_advance" =>
        /\ Errored <=> NoTransition
        /\ ~Errored =>
              /\ Len(last.res) = 4
              /\ last.res[1] = "Advanced to "
              /\ last.res[2] = UpperName(After.phase)
              /\ last.res[3] = ". "

(* C20, amended. The result of advance begins with "ERROR:" exactly when   *)
(* no transition was made; otherwise it is "Advanced to <PHASE>. " and the *)
(* guidance or, when the iterate branch made the transition, "Advanced to  *)
(* DISPATCHING (iteration <n>/3). " and the guidance, <n> being the new    *)
(* value of iterations; <PHASE> is the upper-case name of the phase the    *)
(* session is in after the call.                                           *)
C20_ResultFormWithIterate ==
    last.op = "pipeline_advance" =>
        /\ Errored <=> NoTransition
        /\ ~Errored =>
              /\ last.res[1] = "Advanced to "
              /\ last.res[2] = UpperName(After.phase)
              /\ IF last.arg = "iterate"
                 THEN /\ Len(last.res) = 8
                      /\ SubSeq(last.res, 3, 7) =
                            <<" (iteration ", ToString(After.iterations), "/", "3", "). ">>
                 ELSE /\ Len(last.res) = 4
                      /\ last.res[3] = ". "

\* a retry answered in the iterate form
C20_Witness ==
    /\ AdvanceCalled /\ last.arg = "iterate" /\ Before.phase = "reviewing"
    /\ last.res = <<"Advanced to ", "DISPATCHING", " (iteration ", "2", "/", "3", "). ",
                    "PHASE_GUIDANCE.dispatching">>


---------------------------------------------------------------------------
(* Retry bound and repository probe                                        *)

\* C21: retry is bounded: a session's state never counts more than the initial
\* dispatch and MAX_ITERATIONS retries, dispatches <= 4 in every reachable state
C21_DispatchesBounded ==
    \A sid \in DOMAIN sessions : sessions[sid].dispatches <= MAX_ITERATIONS + 1

\* the last call ran the external check of the repository probe
ProbeRan == exec.outcome \in ExecOutcomes

\* C22: the external check of the probe runs at most once per session: no call
\* runs it for a session for which it has run before
C22_ProbeOncePerSession == ProbeRan => ~exec.repeated

\* the state the caller would have held with the answer No already memoized
MemoizedNo == [Before EXCEPT !.isGitRepo = GitFalse]

\* C23: when the external check times out, exits non-zero or cannot be run, the
\* probe yields No and the advance or status call that triggered it returns
\* the result it returns for a session whose answer is already No
C23_ProbeNeverFailsCaller ==
    (ProbeRan /\ exec.outcome # "exit 0") =>
        /\ After.isGitRepo = GitFalse
        /\ last.op = "pipeline_advance" =>
              last.res = advanceExecute(MemoizedNo, last.arg).result
        /\ last.op = "pipeline_status" => last.res = statusExecute(MemoizedNo)

\* the first advance call of a session, whose external check timed out, is
\* granted and leaves the answer No
C23_Witness ==
    /\ exec.outcome = "timeout"
    /\ AdvanceCalled
    /\ last.arg = "refine"
    /\ Before.isGitRepo = GitNull
    /\ Advanced
    /\ After.phase = "refining"
    /\ After.isGitRepo = GitFalse


---------------------------------------------------------------------------
(* Patch engine: applying hunks                                            *)

\* C24: round trip: applying the hunks of a unified diff from text A to text B,
\* given in any order, to A yields exactly B, hunks that only insert lines and
\* hunks without context lines included
C24_RoundTrip ==
    (hunkRun.done /\ hunkRun.target # Undefined) =>
        hunkRun.result = hunkRun.target.text

\* what applyHunks returns for the hunks of the run given in some order
resultFor(hunks) == applyHunks(hunkRun.content, hunks)

\* C25 as stated: for any content and any non-overlapping hunks the result is
\* the same for every rearrangement of the hunk sequence
C25_AnyOrderSameResult ==
    hunkRun.done =>
        \A hunks \in Rearrangements(hunkRun.hunks) : resultFor(hunks) = hunkRun.result

\* no two hunks of the sequence name the same oldStart
distinctStarts(hunks) ==
    \A i, j \in 1..Len(hunks) : i # j => hunks[i].oldStart # hunks[j].oldStart

\* C25: for any content and any non-overlapping hunks with pairwise different
\* oldStart the result is the same for every rearrangement of the hunk sequence
C25_DistinctStartsAnyOrder ==
    (hunkRun.done /\ distinctStarts(hunkRun.hunks)) =>
        \A hunks \in Rearrangements(hunkRun.hunks) : resultFor(hunks) = hunkRun.result

\* two hunks given top down, for which splicing in the given order would have
\* produced another text than the one returned
C25_Witness ==
    /\ hunkRun.done
    /\ Len(hunkRun.hunks) > 1
    /\ hunkRun.hunks[1].oldStart < hunkRun.hunks[2].oldStart
    /\ hunkRun.result # join(spliceAll(split(hunkRun.content, "\n"), hunkRun.hunks), "\n")
    /\ \E hunks \in Rearrangements(hunkRun.hunks) : hunks # hunkRun.hunks


---------------------------------------------------------------------------
(* Patch engine: applying a patch to the file system                       *)

\* apply_patch has been called, and parsePatch found Patch Files
PatchCalled == Len(patchCall.files) > 0

\* the no-file sentinel
Sentinel == <<"/", "d", "e", "v", "/", "n", "u", "l", "l">>

\* the file a path of the patch names
Named(patchPath) == resolvePatchPath(patchPath, directory)

\* Patch Files that create, delete and modify
Creates(file) == file.oldPath = Sentinel /\ file.newPath # Sentinel
Deletes(file) == file.newPath = Sentinel /\ file.oldPath # Sentinel
Modifies(file) == file.oldPath # Sentinel /\ file.newPath # Sentinel

Succeeded == patchCall.res.head = "Patch applied successfully:"
Failed == patchCall.res.head = "ERROR"

\* the patch of the call holds one Patch File, which deletes
DeleteCalled == Len(patchCall.files) = 1 /\ Deletes(patchCall.files[1])

\* C26: a Patch File whose new path is the sentinel and whose old path names a
\* file that exists: the call removes that file and reports "Deleted" for it
C26_DeleteRemovesFile ==
    (DeleteCalled /\ existsSync(patchCall.pre, Named(patchCall.files[1].oldPath))) =>
        /\ ~existsSync(disk, Named(patchCall.files[1].oldPath))
        /\ patchCall.res =
              Success(<<Piece("Deleted: ", Named(patchCall.files[1].oldPath))>>)

\* C27: a delete patch whose file is already absent reports "Skipped" for it
\* and returns the success result; applied again it leaves the file system as
\* it is after the first application
C27_DeleteIdempotent ==
    (DeleteCalled /\ ~existsSync(patchCall.pre, Named(patchCall.files[1].oldPath))) =>
        /\ patchCall.res =
              Success(<<Piece("Skipped (already gone): ",
                              Named(patchCall.files[1].oldPath))>>)
        /\ disk = patchCall.pre
        /\ applyFiles(disk, patchCall.files, directory, patchCall.privileged).disk = disk

\* the call, had the patch ended after its first k Patch Files
Upto(k) ==
    forEachFile(patchCall.pre, SubSeq(patchCall.files, 1, k), <<>>,
                directory, patchCall.privileged)

\* the loop reaches Patch File k: every Patch File before it went through
Reached(k) == k \in 1..Len(patchCall.files) /\ Upto(k - 1).res.head # "ERROR"

\* no other Patch File of the patch names the target of Patch File k
OnlyOneFor(k) ==
    \A i \in 1..Len(patchCall.files) :
        Named(patchCall.files[i].newPath) = Named(patchCall.files[k].newPath) => i = k

\* the lines of all hunks of a Patch File, in hunk order
RECURSIVE AllLines(_)
AllLines(hunks) ==
    IF Len(hunks) = 0 THEN <<>> ELSE Head(hunks).lines \o AllLines(Tail(hunks))

AddTagged(line) == line[1] = "+"

\* the text of the add-tagged lines of a Patch File, joined by newline
AddedContent(file) ==
    LET added == SelectSeq(AllLines(file.hunks), AddTagged) IN
    join([i \in 1..Len(added) |-> Tail(added[i])], "\n")

\* C28: a Patch File whose old path is the sentinel: the call writes the file
\* at the resolved new path with the add-tagged lines of all hunks, in hunk
\* order, joined by newline, creates the missing parent directories and reports
\* "Created"; context and remove lines contribute nothing
C28_CreateWritesAddedLines ==
    \A k \in 1..Len(patchCall.files) :
        (Reached(k) /\ Creates(patchCall.files[k]) /\ OnlyOneFor(k)) =>
            /\ isFile(disk, Named(patchCall.files[k].newPath))
            /\ readFileSync(disk, Named(patchCall.files[k].newPath)) =
                  AddedContent(patchCall.files[k])
            /\ isDirectory(disk, dirname(Named(patchCall.files[k].newPath)))
            /\ Upto(k).res.report[k] =
                  Piece("Created: ", Named(patchCall.files[k].newPath))
            /\ Succeeded => patchCall.res.report[k] =
                               Piece("Created: ", Named(patchCall.files[k].newPath))

\* notes/todo.txt is created with "a\nb" where the directory notes was missing
C28_Witness ==
    /\ patchCall.patch = join(CreateTodo, "\n")
    /\ ~existsSync(patchCall.pre, <<"/", "w", "/", "n", "o", "t", "e", "s">>)
    /\ isDirectory(disk, <<"/", "w", "/", "n", "o", "t", "e", "s">>)
    /\ readFileSync(disk, <<"/", "w", "/", "n", "o", "t", "e", "s", "/", "t", "o", "d", "o", ".", "t", "x", "t">>) = <<"a", "\n", "b">>
    /\ patchCall.res = Success(<<Piece("Created: ", <<"/", "w", "/", "n", "o", "t", "e", "s", "/", "t", "o", "d", "o", ".", "t", "x", "t">>)>>)

\* the result that names a missing file
FileNotFound(filePath) ==
    Error(<< Piece(": File not found: ", filePath),
             Piece(". Use --- /dev/null for new file creation.", <<>>) >>)

\* C29: a Patch File with neither path the sentinel whose target does not
\* exist: the call returns a string that begins with "ERROR" and names the
\* missing file, and neither creates nor writes that file
C29_ModifyMissingErrors ==
    \A k \in 1..Len(patchCall.files) :
        (/\ Reached(k)
         /\ Modifies(patchCall.files[k])
         /\ ~existsSync(Upto(k - 1).disk, Named(patchCall.files[k].newPath))) =>
            /\ patchCall.res = FileNotFound(Named(patchCall.files[k].newPath))
            /\ ~existsSync(disk, Named(patchCall.files[k].newPath))

\* the patch for g.txt where g.txt is missing
C29_Witness ==
    /\ patchCall.patch = join(ModifyG, "\n")
    /\ ~existsSync(patchCall.pre, <<"/", "w", "/", "g", ".", "t", "x", "t">>)
    /\ patchCall.res = FileNotFound(<<"/", "w", "/", "g", ".", "t", "x", "t">>)
    /\ disk = patchCall.pre

\* Patch File k is reached and fails: the loop body returns or throws
FailsAt(k) ==
    /\ Reached(k)
    /\ applyFile(Upto(k - 1).disk, patchCall.files[k], directory,
                 patchCall.privileged).ended

\* C30: no rollback: when Patch File k fails, the file system is the one the
\* Patch Files 1..k-1 have left, the Patch Files after k are not touched, and
\* the call returns an error result
C30_NoRollback ==
    \A k \in 1..Len(patchCall.files) :
        FailsAt(k) =>
            /\ Failed
            /\ disk = Upto(k - 1).disk
            /\ \A i \in 1..(k - 1) :
                  (Creates(patchCall.files[i]) /\ OnlyOneFor(i)) =>
                      /\ isFile(disk, Named(patchCall.files[i].newPath))
                      /\ readFileSync(disk, Named(patchCall.files[i].newPath)) =
                            AddedContent(patchCall.files[i])
            /\ \A i \in (k + 1)..Len(patchCall.files) :
                  OnlyOneFor(i) =>
                      (existsSync(disk, Named(patchCall.files[i].newPath)) <=>
                          existsSync(patchCall.pre, Named(patchCall.files[i].newPath)))

\* of three Patch Files the second fails: notes/todo.txt stays created, m.txt
\* is not created, the result is an error
C30_Witness ==
    /\ patchCall.patch = join(CreateTodo \o ModifyG \o CreateM, "\n")
    /\ ~existsSync(patchCall.pre, <<"/", "w", "/", "n", "o", "t", "e", "s", "/", "t", "o", "d", "o", ".", "t", "x", "t">>)
    /\ ~existsSync(patchCall.pre, <<"/", "w", "/", "m", ".", "t", "x", "t">>)
    /\ FailsAt(2)
    /\ readFileSync(disk, <<"/", "w", "/", "n", "o", "t", "e", "s", "/", "t", "o", "d", "o", ".", "t", "x", "t">>) = <<"a", "\n", "b">>
    /\ ~existsSync(disk, <<"/", "w", "/", "m", ".", "t", "x", "t">>)
    /\ patchCall.res = FileNotFound(<<"/", "w", "/", "g", ".", "t", "x", "t">>)


---------------------------------------------------------------------------
\* the step is a call of pipeline_advance or pipeline_status by a session
\* that has no pipeline state
StatelessCall ==
    /\ last'.op \in {"pipeline_advance", "pipeline_status"}
    /\ ~has(sessions, last'.sid)

(* C31. pipeline_advance and pipeline_status called for a session without  *)
(* pipeline state (a subagent, a primary session of another agent) return  *)
(* the "No pipeline state" string and throw nothing, create no state for   *)
(* the caller and leave the state of every other session as it was.        *)
C31_StatelessCallIsNoOp ==
    [][ StatelessCall =>
          /\ last'.res[1] # "throw"
          /\ last'.res[Len(last'.res)] = "No pipeline state"
          /\ ~has(sessions', last'.sid)
          /\ sessions' = sessions /\ knownPrimarySessions' = knownPrimarySessions ]_vars

\* a subagent session called pipeline_advance while the orchestrator's
\* session was reviewing
C31_Witness ==
    /\ last.op = "pipeline_advance" /\ last.sid = "s2"
    /\ ~has(sessions, "s2") /\ "s2" \notin knownPrimarySessions
    /\ has(sessions, "s1") /\ sessions["s1"].phase = "reviewing"
    /\ last.res = <<"ERROR:", "No pipeline state">>


---------------------------------------------------------------------------
(* C33. In every reachable state of a session, dispatches = iterations + 1 *)
(* when the phase is dispatching, reviewing, reporting or complete, and    *)
(* dispatches = 0 and iterations = 0 when it is brainstorming or refining. *)
C33_DispatchesIsIterationsPlusOne ==
    \A sid \in DOMAIN sessions :
        IF sessions[sid].phase \in {"brainstorming", "refining"}
        THEN sessions[sid].dispatches = 0 /\ sessions[sid].iterations = 0
        ELSE sessions[sid].dispatches = sessions[sid].iterations + 1

\* the last call replaced a state in phase complete by a fresh one
ResetCall ==
    /\ StateCall /\ last.op = "chat.message" /\ last.arg = ORCHESTRATOR_AGENT
    /\ Before.phase = "complete"

\* the last call moved the phase from reviewing to dispatching
RetryMove == StateCall /\ Before.phase = "reviewing" /\ After.phase = "dispatching"

(* C34. iterations counts the moves from reviewing to dispatching since    *)
(* the state was created or reset: a new or reset state has iterations 0,  *)
(* a call that moves the phase from reviewing to dispatching adds one, and *)
(* every other call leaves iterations as it was.                           *)
C34_IterationsCountsRetryMoves ==
    /\ (has(sessions, last.sid) /\ ~has(last.pre, last.sid)) => After.iterations = 0
    /\ ResetCall => After.iterations = 0
    /\ (StateCall /\ ~ResetCall) =>
          After.iterations = Before.iterations + (IF RetryMove THEN 1 ELSE 0)


---------------------------------------------------------------------------
(* Two sessions that can both hold pipeline state                          *)

\* in PairSpec pipeline_advance is not called once it would make dispatches
\* exceed this
MaxPairDispatches == 1

\* chat.message inputs: either session can become an orchestrator session;
\* until its first user turn s2 is a session no user drives, a subagent's
PairChatInputs == {"s1", "s2"} \X {ORCHESTRATOR_AGENT}

\* pipeline_advance calls <<sessionID, target>>: s1 with every alias, s2 as
\* far as its first stay in dispatching
PairAdvanceInputs ==
    ({"s1"} \X DOMAIN TARGET_ALIASES) \cup ({"s2"} \X {"refine", "dispatch"})

\* input.tool of tool.execute.before
PairToolNames == { <<"T", "a", "s", "k">> }

\* tool.execute.after inputs: a git diff, a finished Task, a failed Task
PairCompletions ==
    { Completion(<<"b", "a", "s", "h">>, Str(<<"g", "i", "t", " ", "d", "i", "f", "f">>), Undefined),
      Completion(<<"t", "a", "s", "k">>, Undefined, Str(<<"d", "o", "n", "e">>)),
      Completion(<<"t", "a", "s", "k">>, Undefined,
                 Str(<<"T", "a", "s", "k", " ", "f", "a", "i", "l", "e", "d">>)) }

\* a user turn, at a time when Date.now() reads 0
PairChat(sid, agent) ==
    /\ ChatMessage(sid, agent)
    /\ has(sessions', sid) => sessions'[sid].startTime = 0

PairAdvance(sid, target) ==
    /\ PipelineAdvance(sid, target)
    /\ has(sessions', sid) => sessions'[sid].dispatches <= MaxPairDispatches

PairNext ==
    \/ \E i \in PairChatInputs : PairChat(i[1], i[2])
    \/ \E i \in PairAdvanceInputs : PairAdvance(i[1], i[2])
    \/ \E sid \in SessionIds : PipelineStatus(sid)
    \/ \E sid \in SessionIds, toolName \in PairToolNames : ToolExecuteBefore(sid, toolName)
    \/ \E sid \in SessionIds, c \in PairCompletions : ToolExecuteAfter(sid, c)

PairSpec == Init /\ [][PairNext]_vars

(* C35. An event that carries session id X changes the pipeline state of   *)
(* no session Y # X: every other session that has state keeps it, field by *)
(* field, and none gains or loses state. In particular a git diff or a     *)
(* Task completion in a subagent session leaves gitDiffCalled and phase of *)
(* the orchestrator session as they were.                                  *)
C35_SessionsIsolated ==
    [][ \A y \in SessionIds \ {last'.sid} :
          /\ has(sessions', y) = has(sessions, y)
          /\ has(sessions, y) => sessions'[y] = sessions[y] ]_vars

\* a Task completed in a subagent session while the orchestrator session
\* that dispatched it was still in dispatching
C35_Witness ==
    /\ last.op = "tool.execute.after" /\ last.sid = "s2" /\ ~has(sessions, "s2")
    /\ isTaskTool(last.arg.tool) /\ ~HasFailureMarker(last.arg)
    /\ has(sessions, "s1") /\ sessions["s1"].phase = "dispatching"

\* a git diff ran in one orchestrator session while another one was
\* reviewing without having seen one
C35_WitnessPair ==
    /\ last.op = "tool.execute.after" /\ last.sid = "s2" /\ StateCall
    /\ isBashTool(last.arg.tool) /\ sessions["s2"].gitDiffCalled
    /\ has(sessions, "s1") /\ sessions["s1"].phase = "reviewing"
    /\ ~sessions["s1"].gitDiffCalled


---------------------------------------------------------------------------
(* The workflow logger (src/.opencode/plugins/workflow-logger.ts)          *)

\* the logger handles no session.created event that would make an entry's
\* dispatches exceed this
MaxChildren == 3

\* an event: its type and the properties of it the logger reads
Event(type, parentID, id, sessionID) ==
    [type |-> type, parentID |-> parentID, id |-> id, sessionID |-> sessionID]

\* a property that is missing, or a session id, or the empty string
PropValues == {Undefined, Str(""), Str("s1"), Str("s2")}

\* a value is truthy
truthy(v) == v # Undefined /\ v.text # ""

\* Math.round(x / 1000)
roundSeconds(x) == (x + 500) \div 1000

\* slip: every dispatch is reported as a review cycle
reviewCycles_everyDispatch(state) == state.dispatches

\* Math.max(0, state.dispatches - 1)
reviewCycles(state) == Max(0, state.dispatches - 1)

\* the toast of the idle branch
completeToast(state, now) ==
    [ message |-> "Pipeline complete", dispatches |-> state.dispatches,
      reviewCycles |-> reviewCycles(state),
      elapsed |-> roundSeconds(now - state.startTime), variant |-> "success" ]

\* slip: the first child event only makes the entry, it is not counted
sessionCreated_firstUncounted(map, parentID, now) ==
    IF has(map, parentID)
    THEN set(map, parentID, [map[parentID] EXCEPT !.dispatches = @ + 1])
    ELSE set(map, parentID, [dispatches |-> 0, startTime |-> now])

\* the session.created branch: the entry of parentID afterwards
sessionCreated(map, parentID, now) ==
    LET made == IF has(map, parentID) THEN map
                ELSE set(map, parentID, [dispatches |-> 0, startTime |-> now])
    IN  set(made, parentID, [made[parentID] EXCEPT !.dispatches = @ + 1])

\* slip: the entry is kept after the notification
sessionIdle_keepsEntry(map, sessionID, now) ==
    IF has(map, sessionID)
    THEN [map |-> map, toasts |-> <<completeToast(map[sessionID], now)>>]
    ELSE [map |-> map, toasts |-> <<>>]

\* the session.idle branch for a non-empty sessionID: the record afterwards
\* and the toasts shown
sessionIdle(map, sessionID, now) ==
    IF has(map, sessionID)
    THEN [ map    |-> [k \in (DOMAIN map) \ {sessionID} |-> map[k]],
           toasts |-> <<completeToast(map[sessionID], now)>> ]
    ELSE [map |-> map, toasts |-> <<>>]

\* the events delivered to the logger
LoggerEvents ==
    { Event("session.created", p, Undefined, Undefined) : p \in PropValues }
    \cup { Event("session.idle", Undefined, i, s) : i \in PropValues, s \in {Undefined, Str("s1")} }
    \cup { Event("session.error", Undefined, Str("s1"), Undefined) }

\* String(props.id ?? props.sessionID ?? "")
idleSessionID(event) == orElse(event.id, orElse(event.sessionID, Str(""))).text

\* the key of pipelineState the event concerns, "" when it concerns none
keyOf(event) ==
    CASE event.type = "session.created" /\ truthy(event.parentID) -> event.parentID.text
      [] event.type = "session.idle" -> idleSessionID(event)
      [] OTHER -> ""

\* history: the child events seen per entry since the entry was made
seenAfterEvent(event, key) ==
    LET counted == IF event.type = "session.created" /\ key # ""
                   THEN set(emitted.seen, key, IF has(pipelineState, key)
                                               THEN emitted.seen[key] + 1 ELSE 1)
                   ELSE emitted.seen
    IN  [k \in (DOMAIN counted) \cap (DOMAIN pipelineState') |-> counted[k]]

\* the event hook of the logger, with `now` the value Date.now() returns
LoggerEvent(event, now) ==
    LET key == keyOf(event)
        idle == sessionIdle(pipelineState, key, now) IN
    /\ CASE event.type = "session.created" /\ key # "" ->
              /\ pipelineState' = sessionCreated(pipelineState, key, now)
              /\ pipelineState'[key].dispatches <= MaxChildren
         [] event.type = "session.idle" /\ key # "" -> pipelineState' = idle.map
         [] OTHER -> UNCHANGED pipelineState
    /\ emitted' = [ type   |-> event.type,
                    sid    |-> key,
                    pre    |-> entry(pipelineState, key),
                    toasts |-> IF event.type = "session.idle" /\ key # ""
                               THEN idle.toasts ELSE <<>>,
                    seen   |-> seenAfterEvent(event, key) ]
    /\ UNCHANGED <<pipelineVars, engineVars, hostVars>>

LoggerInit == Constructed /\ EngineIdle /\ LoggerIdle /\ HostIdle

LoggerNext == \E event \in LoggerEvents, now \in DateNow : LoggerEvent(event, now)

LoggerSpec == LoggerInit /\ [][LoggerNext]_vars

\* the last event was session.idle for a session that had an entry
IdleWithEntry == emitted.type = "session.idle" /\ has(emitted.pre, emitted.sid)

\* the last event was session.idle for a session that had none
IdleWithoutEntry == emitted.type = "session.idle" /\ ~has(emitted.pre, emitted.sid)

(* C32. For each parent session the logger's dispatches equals the number  *)
(* of child session.created events seen since the entry was made. A        *)
(* session.idle event for a session with an entry shows exactly one        *)
(* "Pipeline complete" notification, with that dispatches and              *)
(* max(0, dispatches - 1) review cycles, and deletes the entry; one for a  *)
(* session without an entry (such as a second idle event with no dispatch  *)
(* in between) shows nothing.                                              *)
C32_LoggerCountsAndNotifiesOnce ==
    /\ \A p \in DOMAIN pipelineState : pipelineState[p].dispatches = emitted.seen[p]
    /\ IdleWithEntry =>
          /\ Len(emitted.toasts) = 1
          /\ emitted.toasts[1].message = "Pipeline complete"
          /\ emitted.toasts[1].dispatches = emitted.pre[emitted.sid].dispatches
          /\ emitted.toasts[1].reviewCycles =
                Max(0, emitted.pre[emitted.sid].dispatches - 1)
          /\ ~has(pipelineState, emitted.sid)
    /\ IdleWithoutEntry => emitted.toasts = <<>> /\ ~has(pipelineState, emitted.sid)
    /\ emitted.type # "session.idle" => emitted.toasts = <<>>

\* after three dispatches the parent went idle: the toast reports three
\* dispatches and two review cycles, and the other parent's entry is kept
C32_Witness ==
    /\ IdleWithEntry /\ emitted.sid = "s1"
    /\ emitted.toasts[1].dispatches = 3 /\ emitted.toasts[1].reviewCycles = 2
    /\ has(pipelineState, "s2")


---------------------------------------------------------------------------
(* One pipeline run driven by an agent that re-dispatches while it can     *)

\* pipeline_advance(target) would move the phase
granted(state, target) == advanceExecute(state, target).result[1] = "Advanced to "

\* the targets with which a call would enter dispatching from this state
redispatching(state) ==
    { a \in DOMAIN TARGET_ALIASES :
        TARGET_ALIASES[a] = "dispatching" /\ granted(state, a) }

\* what the agent asks of pipeline_advance: the next phase of the prompt's
\* sequence, and in reviewing a re-dispatch while some call grants one,
\* report when none does
agentTargets(state) ==
    CASE state.phase = "brainstorming" -> {"refine"}
      [] state.phase = "refining"      -> {"dispatch"}
      [] state.phase = "reviewing"     ->
            IF redispatching(state) # {} THEN redispatching(state) ELSE {"report"}
      [] state.phase = "reporting"     -> {"complete"}
      [] OTHER                         -> {}

\* dispatches is printed and never tested by the code, so its values from
\* MaxDispatches on are kept as one
capped(state) == [state EXCEPT !.dispatches = Min(@, MaxDispatches)]

\* the phase of a session, "none" when it has no pipeline state
phaseOf(sid) == IF has(sessions, sid) THEN sessions[sid].phase ELSE "none"

\* the user's turns: the first one, and one after a run is complete
UserTurn ==
    /\ phaseOf("s1") \in {"none", "complete"}
    /\ ChatMessage("s1", ORCHESTRATOR_AGENT)

\* a pipeline_advance call of the agent
AgentAdvance ==
    /\ has(sessions, "s1")
    /\ \E target \in agentTargets(sessions["s1"]), outcome \in ExecOutcomes :
         LET runs == sessions["s1"].isGitRepo = GitNull
             probe == checkGitRepo(outcome)
             r == advanceExecute(ensureGitRepoDetected(sessions["s1"], probe), target) IN
         /\ probed' = IF runs THEN probed \cup {"s1"} ELSE probed
         /\ exec' = IF runs THEN Exec("s1", outcome) ELSE NoExec
         /\ sessions' = set(sessions, "s1", capped(r.state))
         /\ diffSeen' = set(diffSeen, "s1",
                            seenAfter(diffSeen["s1"], sessions["s1"].phase, r.state.phase))
         /\ last' = Call("pipeline_advance", "s1", target, r.result)
    /\ UNCHANGED <<knownPrimarySessions, otherVars>>

\* a Task call of the agent that the tool gate admits runs and completes
\* with `output`
TaskRuns(output) ==
    /\ has(sessions, "s1")
    /\ toolExecuteBefore(sessions, knownPrimarySessions, "s1", <<"t", "a", "s", "k">>)
          = <<"return">>
    /\ ToolExecuteAfter("s1", Completion(<<"t", "a", "s", "k">>, Undefined, Str(output)))

\* the dispatch completes without failure marker
TaskDone == TaskRuns(<<"d", "o", "n", "e">>)

\* the dispatch completes with a failure marker
TaskFailed == TaskRuns(<<"T", "a", "s", "k", " ", "f", "a", "i", "l", "e", "d">>)

\* the agent runs git diff during review
GitDiffRuns ==
    /\ phaseOf("s1") = "reviewing"
    /\ ToolExecuteAfter("s1", Completion(<<"b", "a", "s", "h">>,
                                         Str(<<"g", "i", "t", " ", "d", "i", "f", "f">>),
                                         Undefined))

LoopNext ==
    \/ UserTurn
    \/ AgentAdvance
    \/ TaskDone
    \/ TaskFailed
    \/ GitDiffRuns
    \/ PipelineStatus("s1")

\* the host delivers completions and the agent goes on calling: a dispatch
\* that can complete, a git diff that can be seen and an advance call that
\* can be made are not put off for ever
LoopSpec ==
    /\ Init /\ [][LoopNext]_vars
    /\ WF_vars(TaskDone) /\ WF_vars(GitDiffRuns) /\ WF_vars(AgentAdvance)

(* C36. A pipeline run in which the agent requests a re-dispatch from      *)
(* reviewing as long as some advance call grants one, and report           *)
(* otherwise, reaches phase complete, given that dispatches complete       *)
(* without failure marker, git diff is observed and the agent's advance    *)
(* calls are made.                                                         *)
C36_ReviewLoopTerminates ==
    (phaseOf("s1") # "none") ~> (phaseOf("s1") = "complete")


---------------------------------------------------------------------------
(* Task calls in flight                                                    *)

\* the host runs at most this many Task calls of the session at a time
MaxInFlight == 2

\* A stay in dispatching is numbered by the value dispatches has during it:
\* every entry into dispatching increments dispatches
stayOf(state) == state.dispatches

\* a Task call the gate admitted, in slot `id` of the host
Admitted(id, state) == [id |-> id, stay |-> stayOf(state)]

\* the run starts: the user's first turn
TaskUserTurn == phaseOf("s1") = "none" /\ ChatMessage("s1", ORCHESTRATOR_AGENT)

\* the agent calls the Task tool: tool.execute.before runs, and the call is
\* in flight when the hook returns
TaskCalled(id) ==
    LET res == toolExecuteBefore(sessions, knownPrimarySessions, "s1", <<"t", "a", "s", "k">>) IN
    /\ has(sessions, "s1")
    /\ \A t \in inFlight : t.id # id
    /\ inFlight' = IF res = <<"return">>
                   THEN inFlight \cup {Admitted(id, sessions["s1"])} ELSE inFlight
    /\ last' = Call("tool.execute.before", "s1", <<"t", "a", "s", "k">>, res)
    /\ exec' = NoExec
    /\ UNCHANGED <<sessions, knownPrimarySessions, diffSeen, probed,
                   engineVars, loggerVars, handlers>>

\* a Task call in flight returns `output`: tool.execute.after runs
TaskReturned(t, output) ==
    LET st == toolExecuteAfter(sessions["s1"], <<"t", "a", "s", "k">>, Undefined, Str(output)) IN
    /\ t \in inFlight
    /\ inFlight' = inFlight \ {t}
    /\ sessions' = set(sessions, "s1", st)
    /\ diffSeen' = set(diffSeen, "s1", seenAfter(diffSeen["s1"], sessions["s1"].phase, st.phase))
    /\ last' = Call("tool.execute.after", "s1",
                    [ tool |-> <<"t", "a", "s", "k">>, command |-> Undefined,
                      output |-> Str(output), admitted |-> t.stay ],
                    <<"return">>)
    /\ exec' = NoExec
    /\ UNCHANGED <<knownPrimarySessions, probed, engineVars, loggerVars, handlers>>

\* what a Task call returns: a report, or one with a failure marker
TaskOutputs == { <<"d", "o", "n", "e">>, <<"T", "a", "s", "k", " ", "f", "a", "i", "l", "e", "d">> }

TaskNext ==
    \/ TaskUserTurn
    \/ \E target \in DOMAIN TARGET_ALIASES : PipelineAdvance("s1", target)
    \/ \E id \in 1..MaxInFlight : TaskCalled(id)
    \/ \E t \in inFlight, output \in TaskOutputs : TaskReturned(t, output)
    \/ GitDiffRuns

TaskSpec == Init /\ [][TaskNext]_vars

(* C38. Every move from dispatching to reviewing is made by the completion *)
(* of a Task call that the tool gate admitted during that same stay in     *)
(* dispatching: a Task admitted in an earlier stay, completing while the   *)
(* session is in dispatching again, does not move the phase.               *)
C38_AutoAdvanceBySameStayTask ==
    (StateCall /\ Before.phase = "dispatching" /\ After.phase = "reviewing") =>
        /\ last.op = "tool.execute.after"
        /\ isTaskTool(last.arg.tool)
        /\ last.arg.admitted = stayOf(Before)


---------------------------------------------------------------------------
(* Handlers that interleave at their awaits                                *)

\* at most this many handler calls are suspended at a time
MaxSuspended == 2

\* a handler call of session s1 at its first statement
Handler(op, arg) == [op |-> op, arg |-> arg, pc |-> 1, decision |-> "none"]

\* slip: pipeline_advance writes its log record between its checks and the
\* assignments they guard
program_logsBeforeMutation(op) ==
    CASE op = "chat.message"        -> <<"known", "check", "mutate", "await">>
      [] op = "pipeline_advance"    -> <<"get", "ensure", "check", "await", "mutate", "toast">>
      [] op = "pipeline_status"     -> <<"get", "ensure">>
      [] op = "tool.execute.before" -> <<"check", "await">>
      [] op = "tool.execute.after"  ->
            <<"get", "check bash", "mutate", "await",
              "check task", "await failed", "mutate", "await">>

\* The statements of each handler in the order of the source: "check" is a
\* test of the state with the returns that hang on it, "mutate" the
\* assignments the last test guards, "await" an awaited client.app.log,
\* "toast" the awaited client.tui.showToast.
program(op) ==
    CASE op = "chat.message"        -> <<"known", "check", "mutate", "await">>
      [] op = "pipeline_advance"    -> <<"get", "ensure", "check", "mutate", "await", "toast">>
      [] op = "pipeline_status"     -> <<"get", "ensure">>
      [] op = "tool.execute.before" -> <<"check", "await">>
      [] op = "tool.execute.after"  ->
            <<"get", "check bash", "mutate", "await",
              "check task", "await failed", "mutate", "await">>

\* the branch pipelineAdvance.execute takes after its checks
advanceDecision(state, target) ==
    IF advanceExecute(state, target).result[1] = "ERROR:" THEN "error"
    ELSE IF isIterate(target) THEN "iterate" ELSE "generic"

\* what a statement leaves: the handler, the maps, and whether the handler
\* goes on ("next"), is suspended ("yield") or has returned or thrown ("end")
Step(h, map, known, then) == [h |-> h, map |-> map, known |-> known, then |-> then]

At(h, pc, decision) == [h EXCEPT !.pc = pc, !.decision = decision]

\* one statement of chat.message, with `now` the value of Date.now()
chatStatement(h, stmt, map, known, now) ==
    LET n == h.pc + 1 IN
    CASE stmt = "known" ->
            Step(At(h, n, h.decision), map,
                 IF addsPrimary(h.arg) THEN known \cup {"s1"} ELSE known, "next")
      [] stmt = "check" ->
            IF initialises(map, "s1", h.arg)
            THEN Step(At(h, n, "init"), map, known, "next")
            ELSE Step(At(h, n, "none"), map, known, "end")
      [] stmt = "mutate" ->
            Step(At(h, n, h.decision), set(map, "s1", freshState(now)), known, "next")
      [] OTHER -> Step(At(h, n, h.decision), map, known, "yield")

\* one statement of pipeline_advance or pipeline_status, with `outcome` the
\* way the probe's execSync ends
toolStatement(h, stmt, map, known, outcome) ==
    LET n == h.pc + 1 IN
    CASE stmt = "get" ->
            Step(At(h, n, h.decision), map, known, IF has(map, "s1") THEN "next" ELSE "end")
      [] stmt = "ensure" ->
            Step(At(h, n, h.decision),
                 set(map, "s1", ensureGitRepoDetected(map["s1"], checkGitRepo(outcome))),
                 known, "next")
      [] stmt = "check" ->
            LET d == advanceDecision(map["s1"], h.arg) IN
            Step(At(h, n, d), map, known, IF d = "error" THEN "end" ELSE "next")
      [] stmt = "mutate" ->
            Step(At(h, n, h.decision),
                 set(map, "s1", IF h.decision = "iterate"
                                THEN iterateTransition(map["s1"])
                                ELSE executeTransition(map["s1"], TARGET_ALIASES[h.arg])),
                 known, "next")
      [] stmt = "toast" ->
            Step(At(h, n, h.decision), map, known,
                 IF h.decision = "generic" /\ TARGET_ALIASES[h.arg] = "complete"
                 THEN "yield" ELSE "next")
      [] OTHER -> Step(At(h, n, h.decision), map, known, "yield")

\* one statement of tool.execute.before
beforeStatement(h, stmt, map, known) ==
    LET n == h.pc + 1 IN
    CASE stmt = "check" ->
            IF "s1" \notin known /\ subagentBlocked(h.arg)
            THEN Step(At(h, n, "blocked"), map, known, "next")
            ELSE Step(At(h, n, "none"), map, known, "end")
      [] OTHER -> Step(At(h, n, h.decision), map, known, "yield")

\* one statement of tool.execute.after
afterStatement(h, stmt, map, known) ==
    LET n == h.pc + 1
        c == h.arg IN
    CASE stmt = "get" ->
            Step(At(h, n, h.decision), map, known, IF has(map, "s1") THEN "next" ELSE "end")
      [] stmt = "check bash" ->
            Step(At(h, n, IF gitDiffObserved(map["s1"], c.tool, c.command)
                          THEN "diff" ELSE "skip"),
                 map, known, "next")
      [] stmt = "check task" ->
            Step(At(h, n, IF isTaskTool(c.tool) /\ has(map, "s1")
                             /\ map["s1"].phase = "dispatching"
                          THEN IF isFailed(orElse(c.output, Str(<<>>)))
                               THEN "failed" ELSE "advance"
                          ELSE "skip"),
                 map, known, "next")
      [] stmt = "mutate" ->
            Step(At(h, n, h.decision),
                 CASE h.decision = "diff" ->
                         set(map, "s1", [map["s1"] EXCEPT !.gitDiffCalled = TRUE])
                   [] h.decision = "advance" ->
                         set(map, "s1", [map["s1"] EXCEPT !.phase = "reviewing"])
                   [] OTHER -> map,
                 known, "next")
      [] stmt = "await failed" ->
            IF h.decision = "failed"
            THEN Step(At(h, Len(program(h.op)) + 1, h.decision), map, known, "yield")
            ELSE Step(At(h, n, h.decision), map, known, "next")
      [] OTHER ->
            Step(At(h, n, h.decision), map, known,
                 IF h.decision \in {"diff", "advance"} THEN "yield" ELSE "next")

\* the statement at the handler's position
statement(h, map, known, in) ==
    LET stmt == program(h.op)[h.pc] IN
    CASE h.op = "chat.message"        -> chatStatement(h, stmt, map, known, in.now)
      [] h.op = "tool.execute.before" -> beforeStatement(h, stmt, map, known)
      [] h.op = "tool.execute.after"  -> afterStatement(h, stmt, map, known)
      [] OTHER                        -> toolStatement(h, stmt, map, known, in.outcome)

\* the handler runs from its position to its next suspension or its end
RECURSIVE run(_, _, _, _)
run(h, map, known, in) ==
    IF h.pc > Len(program(h.op))
    THEN Step(h, map, known, "end")
    ELSE LET r == statement(h, map, known, in) IN
         IF r.then = "next" THEN run(r.h, r.map, r.known, in) ELSE r

\* the handler calls of session s1: <<hook or tool, argument>>
AwaitCalls ==
    ({"chat.message"} \X {ORCHESTRATOR_AGENT, "build"})
    \cup ({"pipeline_advance"} \X DOMAIN TARGET_ALIASES)
    \cup {<<"pipeline_status", <<>>>>}
    \cup ({"tool.execute.before"} \X {<<"T", "a", "s", "k">>, <<"w", "e", "b", "f", "e", "t", "c", "h">>})
    \cup ({"tool.execute.after"} \X PairCompletions)

\* what a run draws from outside: the clock and the probe
RunInputs == [now : DateNow, outcome : ExecOutcomes]

\* the statements a handler has still to run
rest(h) == SubSeq(program(h.op), h.pc, Len(program(h.op)))

\* the handler has this statement still to run
ahead(h, stmt) == \E i \in 1..Len(rest(h)) : rest(h)[i] = stmt

\* the inputs that can matter to the rest of a handler: the clock when
\* chat.message has its freshState() ahead, the probe when an
\* ensureGitRepoDetected is ahead
drawn(h) ==
    { in \in RunInputs :
        /\ (h.op = "chat.message" /\ ahead(h, "mutate")) \/ in.now = 0
        /\ ahead(h, "ensure") \/ in.outcome = "exit 0" }

\* the maps after a run, and the handler when it is suspended
Ran(r, others) ==
    /\ has(r.map, "s1") => r.map["s1"].dispatches <= MaxDispatches
    /\ sessions' = r.map
    /\ knownPrimarySessions' = r.known
    /\ handlers' = IF r.then = "yield" THEN others \cup {r.h} ELSE others
    /\ UNCHANGED <<diffSeen, last, probed, exec, engineVars, loggerVars, inFlight>>

\* the host calls a handler: it runs to its first await or to its end
HandlerStarts(op, arg) ==
    /\ Cardinality(handlers) < MaxSuspended
    /\ \E in \in drawn(Handler(op, arg)) :
          Ran(run(Handler(op, arg), sessions, knownPrimarySessions, in), handlers)

\* an awaited call settles: the handler runs on to its next await or its end
HandlerResumes(h) ==
    /\ h \in handlers
    /\ \E in \in drawn(h) :
          Ran(run(h, sessions, knownPrimarySessions, in), handlers \ {h})

AwaitNext ==
    \/ \E call \in AwaitCalls : HandlerStarts(call[1], call[2])
    \/ \E h \in handlers : HandlerResumes(h)

AwaitSpec == Init /\ [][AwaitNext]_vars

\* the map a handler leaves when it runs from start to end on its own
whole(op, arg, map, in) ==
    IF op = "chat.message"
    THEN IF initialises(map, "s1", arg) THEN set(map, "s1", freshState(in.now)) ELSE map
    ELSE IF ~has(map, "s1") \/ op = "tool.execute.before" THEN map
    ELSE LET probedState == ensureGitRepoDetected(map["s1"], checkGitRepo(in.outcome)) IN
         CASE op = "pipeline_advance" -> set(map, "s1", advanceExecute(probedState, arg).state)
           [] op = "pipeline_status"  -> set(map, "s1", probedState)
           [] OTHER -> set(map, "s1", toolExecuteAfter(map["s1"], arg.tool, arg.command, arg.output))

\* the maps one handler call can make of `map`
oneAtATime(map) ==
    { m \in { whole(call[1], call[2], map, in) : call \in AwaitCalls, in \in RunInputs } :
        has(m, "s1") => m["s1"].dispatches <= MaxDispatches }

\* the maps reachable from `found` by handler calls one after another, with
\* `fresh` the ones of `found` not yet looked at
RECURSIVE reachable(_, _)
reachable(found, fresh) ==
    LET more == (UNION { oneAtATime(m) : m \in fresh }) \ found IN
    IF more = {} THEN found ELSE reachable(found \cup more, more)

\* the values of `sessions` that handlers run one at a time can produce
SerialStates == reachable({<<>>}, {<<>>})

\* a handler goes on through its suspensions with no other handler between
RECURSIVE finished(_, _)
finished(r, in) ==
    IF r.then = "yield" THEN finished(run(r.h, r.map, r.known, in), in) ELSE r

\* statement by statement a handler leaves the map that the handler taken
\* as a whole leaves
StepwiseIsWhole ==
    \A m \in SerialStates, call \in AwaitCalls, in \in RunInputs :
        finished(run(Handler(call[1], call[2]), m, {}, in), in).map
            = whole(call[1], call[2], m, in)

\* a suspended handler is between a check and the assignments it guards
midCheck(h) ==
    \E i \in 1..Len(rest(h)) :
        /\ rest(h)[i] = "mutate"
        /\ \A j \in 1..(i - 1) : rest(h)[j] \notin {"check", "check bash", "check task"}

(* C37. With handlers of one session interleaving at their awaits, every   *)
(* value the session's pipeline state takes is one that handlers run one   *)
(* at a time can produce, and no handler is suspended between a check and  *)
(* the assignments it guards.                                              *)
C37_HandlersAtomic ==
    /\ StepwiseIsWhole
    /\ sessions \in SerialStates
    /\ \A h \in handlers : ~midCheck(h)

\* two handlers are suspended at their awaits, an iterate that has made
\* its assignments and a git diff completion, while the state has moved on
C37_Witness ==
    /\ \E h \in handlers : h.op = "pipeline_advance" /\ h.arg = "iterate"
    /\ \E h \in handlers : h.op = "tool.execute.after" /\ h.decision = "diff"
    /\ has(sessions, "s1") /\ sessions["s1"].phase = "dispatching"
    /\ sessions["s1"].iterations = MAX_ITERATIONS


---------------------------------------------------------------------------
(* parsePatch on patches of one file                                       *)

\* at most this many lines follow the first hunk header of a patch
MaxBody == 2

\* the header lines of the file f
FileHeader == << <<"-", "-", "-", " ", "a", "/", "f">>, <<"+", "+", "+", " ", "b", "/", "f">> >>

\* first hunk headers: without counts and with both counts
FirstHeaders ==
    { <<"@", "@", " ", "-", "1", " ", "+", "1", " ", "@", "@">>,
      <<"@", "@", " ", "-", "1", ",", "2", " ", "+", "1", ",", "2", " ", "@", "@">> }

\* the marker of a last line without a line end
NoNewlineMarker ==
    <<"\\", " ", "N", "o", " ", "n", "e", "w", "l", "i", "n", "e", " ", "a", "t", " ",
      "e", "n", "d", " ", "o", "f", " ", "f", "i", "l", "e">>

\* The lines under a hunk header: a context line, an added and a removed line,
\* the marker, the added line "++ y", the removed line "-- x", a second hunk
\* header with one count, and a line that has no prefix
BodyLines ==
    { <<" ", "a">>, <<"+", "b">>, <<"-", "c">>, NoNewlineMarker,
      <<"+", "+", "+", " ", "y">>, <<"-", "-", "-", " ", "x">>,
      <<"@", "@", " ", "-", "3", " ", "+", "3", ",", "2", " ", "@", "@">>, <<"x">> }

Bodies == UNION { [1..n -> BodyLines] : n \in 0..MaxBody }

\* patchText: the header of f, a hunk header and a body
ParseTexts ==
    { join(FileHeader \o <<header>> \o body, "\n") : header \in FirstHeaders, body \in Bodies }

\* one call parsePatch(patchText)
ParsePatch(patchText) ==
    /\ parseRun' = [done |-> TRUE, patchText |-> patchText, files |-> parsePatch(patchText)]
    /\ UNCHANGED <<pipelineVars, hunkRun, disk, patchCall, loggerVars, hostVars>>

ParseNext == \E patchText \in ParseTexts : ParsePatch(patchText)

ParseSpec == Init /\ [][ParseNext]_vars

\* the line is a hunk header: "@@ -a[,b] +c[,d] @@"
IsHunkHeader(line) == startsWith(line, <<"@", "@", " ">>) /\ headerMatches(line)

\* the line begins a file
IsFileBoundary(line) == startsWith(line, <<"-", "-", "-", " ">>)

\* the line begins with a space, "+" or "-"
HasEditPrefix(line) == Len(line) > 0 /\ line[1] \in {" ", "+", "-"}

\* the positions of the hunk headers of the file that begins at line 1
HeadersOfFirstFile(lines) ==
    { i \in 1..Len(lines) :
        /\ IsHunkHeader(lines[i])
        /\ \A j \in 2..(i - 1) : ~IsFileBoundary(lines[j]) }

\* where the hunk of the header at i ends: the next hunk header, the next file
\* boundary or the end of the text
HunkEnd(lines, i) ==
    LET stops == { j \in (i + 1)..Len(lines) :
                     IsHunkHeader(lines[j]) \/ IsFileBoundary(lines[j]) } IN
    IF stops = {} THEN Len(lines) + 1 ELSE CHOOSE j \in stops : \A k \in stops : j <= k

\* the lines of the hunk of the header at i that have an edit prefix
EditLinesOf(lines, i) == SelectSeq(SubSeq(lines, i + 1, HunkEnd(lines, i) - 1), HasEditPrefix)

\* the k-th smallest member of a set of numbers
RECURSIVE Nth(_, _)
Nth(numbers, k) ==
    LET least == CHOOSE i \in numbers : \A j \in numbers : i <= j IN
    IF k = 1 THEN least ELSE Nth(numbers \ {least}, k - 1)

\* the text between `sign` and the next space of a hunk header
RangeText(line, sign) ==
    LET from == CHOOSE i \in 1..Len(line) : line[i] = sign /\ line[i - 1] = " "
        to   == CHOOSE j \in from..Len(line) :
                    line[j] = " " /\ \A k \in from..(j - 1) : line[k] # " " IN
    SubSeq(line, from + 1, to - 1)

\* the header gives no count after `sign`
OmitsCount(line, sign) == \A i \in 1..Len(RangeText(line, sign)) : RangeText(line, sign)[i] # ","

\* The hunks of the first file of the result are the hunks of its headers
\* with all their edit lines
KeepsEveryEditLine ==
    LET lines   == split(parseRun.patchText, "\n")
        headers == HeadersOfFirstFile(lines)
        hunks   == parseRun.files[1].hunks IN
    /\ Len(hunks) = Cardinality(headers)
    /\ \A k \in 1..Len(hunks) : hunks[k].lines = EditLinesOf(lines, Nth(headers, k))

\* no hunk of the result holds the marker line
MarkerNotRecorded ==
    \A f \in 1..Len(parseRun.files) : \A k \in 1..Len(parseRun.files[f].hunks) :
        \A n \in 1..Len(parseRun.files[f].hunks[k].lines) :
            parseRun.files[f].hunks[k].lines[n] # NoNewlineMarker

\* a count the header leaves out is 1
CountsDefaultToOne ==
    LET lines   == split(parseRun.patchText, "\n")
        headers == HeadersOfFirstFile(lines)
        hunks   == parseRun.files[1].hunks IN
    \A k \in 1..Len(hunks) :
        k <= Cardinality(headers) =>
            /\ OmitsCount(lines[Nth(headers, k)], "-") => hunks[k].oldCount = 1
            /\ OmitsCount(lines[Nth(headers, k)], "+") => hunks[k].newCount = 1

\* C39: parsePatch keeps, for each hunk, exactly the lines between the hunk's
\* header and the next hunk header or file boundary that begin with a space,
\* "+" or "-", in their order and whatever follows the prefix; the no-newline
\* marker is not recorded, and oldCount and newCount are 1 when the header
\* leaves them out.
C39_ParseKeepsEveryEditLine ==
    parseRun.done =>
        KeepsEveryEditLine /\ MarkerNotRecorded /\ CountsDefaultToOne


---------------------------------------------------------------------------
(* C40: what applyHunks does with one hunk                                 *)

\* the context and remove lines a hunk carries, and its context and add
\* lines, without their prefixes
CarriedOld(hunk) ==
    LET kept == SelectSeq(hunk.lines, LAMBDA line : line[1] \in {" ", "-"}) IN
    [i \in 1..Len(kept) |-> Tail(kept[i])]

CarriedNew(hunk) ==
    LET kept == SelectSeq(hunk.lines, LAMBDA line : line[1] \in {" ", "+"}) IN
    [i \in 1..Len(kept) |-> Tail(kept[i])]

\* lines index .. index + count - 1 (from 0) of the list are in the list
InList(list, index, count) == 0 <= index /\ index + count <= Len(list)

\* the list with the `count` lines from `index` (from 0) on replaced
Replaced(list, index, count, replacement) ==
    SubSeq(list, 1, index) \o replacement \o SubSeq(list, index + count + 1, Len(list))

\* The hunk replaces exactly its c lines from index oldStart - 1 on; `text` is
\* the lines after it, joined
ReplacesExactly(before, hunk, text) ==
    LET c == Len(CarriedOld(hunk)) IN
    /\ InList(before, hunk.oldStart - 1, c)
    /\ text = join(Replaced(before, hunk.oldStart - 1, c, CarriedNew(hunk)), "\n")

\* The hunk replaces its c lines from index oldStart - 1 on as far as the list
\* has them: past the end of the list nothing is removed and the replacement is
\* appended. With oldStart 0 the index is that of the last line.
ReplacesWhatIsThere(before, hunk, text) ==
    LET c     == Len(CarriedOld(hunk))
        index == IF hunk.oldStart = 0 THEN Len(before) - 1 ELSE hunk.oldStart - 1
        from  == IF index > Len(before) THEN Len(before) ELSE index
        there == IF from + c > Len(before) THEN Len(before) - from ELSE c IN
    text = join(Replaced(before, from, there, CarriedNew(hunk)), "\n")

\* a run of applyHunks on one hunk that has returned
OneHunkRun == hunkRun.done /\ Len(hunkRun.hunks) = 1

\* the hunk's context and remove lines are not the lines of the file it names
Mismatch(before, hunk) ==
    ~InList(before, hunk.oldStart - 1, Len(CarriedOld(hunk)))
    \/ SubSeq(before, hunk.oldStart, hunk.oldStart + Len(CarriedOld(hunk)) - 1)
           # CarriedOld(hunk)

\* C40 as stated: for each hunk applyHunks replaces exactly c lines of the line
\* list from index oldStart - 1 on, c the number of its context and remove
\* lines, by its context and add lines in their order, whatever its counts
\* say and whatever the replaced lines are.
C40_ReplacesExactlyCLines ==
    OneHunkRun =>
        ReplacesExactly(split(hunkRun.content, "\n"), hunkRun.hunks[1], hunkRun.result)

\* C40, amended: for each hunk applyHunks replaces the lines of the line list
\* from index oldStart - 1 on, c of them or as many as the list has from there
\* on, by its context and add lines in their order, whatever its counts say
\* and whatever the replaced lines are; exactly c lines are replaced when the
\* list has them.
C40_ReplacesTheLinesThere ==
    OneHunkRun =>
        LET before == split(hunkRun.content, "\n")
            hunk   == hunkRun.hunks[1] IN
        /\ ReplacesWhatIsThere(before, hunk, hunkRun.result)
        /\ InList(before, hunk.oldStart - 1, Len(CarriedOld(hunk)))
               => ReplacesExactly(before, hunk, hunkRun.result)

\* a hunk with context that is not in the file and with counts of 0 has been
\* applied to lines the file has
C40_Witness ==
    /\ OneHunkRun
    /\ Mismatch(split(hunkRun.content, "\n"), hunkRun.hunks[1])
    /\ InList(split(hunkRun.content, "\n"), hunkRun.hunks[1].oldStart - 1,
              Len(CarriedOld(hunkRun.hunks[1])))
    /\ \E i \in 1..Len(hunkRun.hunks[1].lines) : hunkRun.hunks[1].lines[i][1] = " "
    /\ hunkRun.hunks[1].oldCount = 0
    /\ hunkRun.result # hunkRun.content

=============================================================================
